---- MODULE Spec2Model ----
(***************************************************************************)
(* Model of the vicinity-map label placement and export pipeline.          *)
(*                                                                         *)
(* Numbers.  Drawing-space coordinates are integers.  The DXF exporter     *)
(* mirrors Y about midY = (minY + maxY) / 2 and only ever uses 2 * midY,   *)
(* which in IEEE arithmetic is exactly minY + maxY; when no visible road   *)
(* has two points minY = Infinity and maxY = -Infinity, so midY is NaN.    *)
(* A DXF Y value is therefore a record [nan, v]: NaN or the number v.      *)
(* Math.sqrt is monotone and exact on perfect squares, so                  *)
(* sqrt(dx*dx + dy*dy) < 150 is dx*dx + dy*dy < 150*150 on integers.       *)
(* Angles are integer degrees; atan2 is tabulated on the eight compass     *)
(* directions and the zero vector, the only directions the geometries of   *)
(* this model produce.  Geographic coordinates and the results of the      *)
(* coordinate transforms are exact rationals <<numerator, denominator>> in *)
(* lowest terms with a positive denominator, so equal numbers are equal    *)
(* values; drawing coordinates handed to the exporters are whole.          *)
(***************************************************************************)
EXTENDS Integers, Sequences, FiniteSets, TLC

VARIABLES
    roads,              \* Road[] handed to the exporters / renderer
    standaloneLabels,   \* StandaloneLabel[] handed to the exporters
    svgOut,             \* result of the latest exportToSVG call
    svgDrawnLabels,     \* exportToSVG's drawnLabels map as the latest call left it
    dxfOut,             \* result of the latest exportToDXF call
    dxfDrawnLabels,     \* exportToDXF's drawnLabels map as the latest call left it
    svgString,          \* result of the latest call of svgExport/index.ts's exportToSVG
    geometry,           \* svgPoints handed to getCalculatedAngle
    labelAngle,         \* what getCalculatedAngle returned for `geometry`
    bounds,             \* the map bounds (west, south, east, north)
    canvas,             \* <<svgWidth, svgHeight>>
    trail,              \* a point followed by its successive transforms
    response,           \* the Overpass response being processed
    state,              \* EditorState held by the EditorProvider's reducer
    selectionRect,      \* useRectangleSelection: the rectangle being drawn, or null
    isDrawing,          \* useRectangleSelection: a rectangle is being drawn
    isPanning,          \* useMapInteraction: an alt-drag pan is under way
    rotateListeners,    \* the closures handleRotateStart registered on document
    timers,             \* pending setTimeout callbacks that clear ignoreBackgroundClick
    mouse,              \* the pointer: its button down or up, over the drawing or not, and
                        \* where it is while the button is down
    events,             \* user events handled since the editor was mounted
    app                 \* App's state: showEditor, roads, dxfPreviewData, cachedExportData

exportVars == <<roads, standaloneLabels, svgOut, svgDrawnLabels, dxfOut, dxfDrawnLabels,
                svgString>>
angleVars == <<geometry, labelAngle>>
transformVars == <<bounds, canvas, trail>>

editorVars == <<state, selectionRect, isDrawing, isPanning, rotateListeners, timers, mouse,
                events>>

appVars == <<app>>

vars == <<exportVars, angleVars, transformVars, response, editorVars, appVars>>

-----------------------------------------------------------------------------
(* Program constants *)

MIN_LABEL_DISTANCE == 150
DEFAULT_ROAD_FONT_SIZE == 10
DEFAULT_LABEL_FONT_SIZE == 12
DEFAULT_SVG_WIDTH == 800
DEFAULT_SVG_HEIGHT == 600

-----------------------------------------------------------------------------
(* JavaScript values *)

\* An optional field of an object: present iff it is in the record's domain.
Has(obj, f) == f \in DOMAIN obj

\* road.labelOffset?.[i] || 0
OffsetOf(road, i) == IF Has(road, "labelOffset") THEN road.labelOffset[i] ELSE 0

\* x || d for a number x: 0 and undefined are falsy
OrDefault(obj, f, d) == IF Has(obj, f) /\ obj[f] # 0 THEN obj[f] ELSE d

\* A number that may be NaN
NaN == [nan |-> TRUE, v |-> 0]
Num(n) == [nan |-> FALSE, v |-> n]

\* a - b on numbers that may be NaN
NumSub(a, b) == IF a.nan \/ b.nan THEN NaN ELSE Num(a.v - b.v)

Min2(a, b) == IF a < b THEN a ELSE b
Max2(a, b) == IF a > b THEN a ELSE b

\* Math.atan2(dy, dx) * (180 / Math.PI) on the compass directions
Atan2Deg(dy, dx) ==
    CASE dx = 0 /\ dy = 0 -> 0
      [] dy = 0 /\ dx > 0 -> 0
      [] dy = 0 /\ dx < 0 -> 180
      [] dx = 0 /\ dy > 0 -> 90
      [] dx = 0 /\ dy < 0 -> -90
      [] dx > 0 /\ dy = dx -> 45
      [] dx > 0 /\ dy = -dx -> -45
      [] dx < 0 /\ dy = -dx -> 135
      [] dx < 0 /\ dy = dx -> -135

-----------------------------------------------------------------------------
(* Exact arithmetic on rationals *)

Abs(n) == IF n < 0 THEN -n ELSE n

RECURSIVE Gcd(_, _)
Gcd(a, b) == IF b = 0 THEN a ELSE Gcd(b, a % b)

\* n / d in lowest terms, d # 0
Rat(n, d) ==
    LET g == Gcd(Abs(n), Abs(d))
        sign == IF d < 0 THEN -1 ELSE 1
    IN  <<(sign * n) \div g, (sign * d) \div g>>

RatOf(n) == <<n, 1>>

RAdd(a, b) == Rat(a[1] * b[2] + b[1] * a[2], a[2] * b[2])
RSub(a, b) == Rat(a[1] * b[2] - b[1] * a[2], a[2] * b[2])
RMul(a, b) == Rat(a[1] * b[1], a[2] * b[2])
RDiv(a, b) == Rat(a[1] * b[2], a[2] * b[1])

\* A whole rational as an integer
Whole(r) == r[1] \div r[2]

-----------------------------------------------------------------------------
(* coordinateTransforms.transformToSVGCoords / transformToGeoCoords *)

transformToSVGCoords(point, b, svgWidth, svgHeight) ==
    LET boundWidth == RSub(RatOf(b.east), RatOf(b.west))
        boundHeight == RSub(RatOf(b.north), RatOf(b.south))
        scaleX == RDiv(RatOf(svgWidth), boundWidth)
        scaleY == RDiv(RatOf(svgHeight), boundHeight)
        x == RMul(RSub(point[1], RatOf(b.west)), scaleX)
        y == RSub(RatOf(svgHeight), RMul(RSub(point[2], RatOf(b.south)), scaleY))
    IN  <<x, y>>

\* The inverse without the Y inversion
transformToGeoCoords_NoInvert(point, b, svgWidth, svgHeight) ==
    LET boundWidth == RSub(RatOf(b.east), RatOf(b.west))
        boundHeight == RSub(RatOf(b.north), RatOf(b.south))
        scaleX == RDiv(RatOf(svgWidth), boundWidth)
        scaleY == RDiv(RatOf(svgHeight), boundHeight)
        lon == RAdd(RDiv(point[1], scaleX), RatOf(b.west))
        lat == RAdd(RatOf(b.south), RDiv(point[2], scaleY))
    IN  <<lon, lat>>

transformToGeoCoords(point, b, svgWidth, svgHeight) ==
    LET boundWidth == RSub(RatOf(b.east), RatOf(b.west))
        boundHeight == RSub(RatOf(b.north), RatOf(b.south))
        scaleX == RDiv(RatOf(svgWidth), boundWidth)
        scaleY == RDiv(RatOf(svgHeight), boundHeight)
        lon == RAdd(RDiv(point[1], scaleX), RatOf(b.west))
        lat == RAdd(RatOf(b.south), RDiv(RSub(RatOf(svgHeight), point[2]), scaleY))
    IN  <<lon, lat>>

-----------------------------------------------------------------------------
(* Feature classification *)

significantTypes ==
    {"motorway", "trunk", "primary", "secondary", "tertiary",
     "residential", "unclassified", "service", "track", "path",
     "footway", "cycleway", "steps"}

\* significantTypes.includes(tags.highway) || !!tags.name
isSignificantRoad(tags) ==
    \/ Has(tags, "highway") /\ tags.highway \in significantTypes
    \/ Has(tags, "name") /\ tags.name # ""

RoadTypeValues ==
    {"motorway", "trunk", "primary", "secondary", "tertiary", "residential",
     "service", "track", "path", "footway", "cycleway", "steps", "unclassified",
     "other", "railway_major", "railway_minor", "waterway_major", "waterway_minor"}

\* osmType.startsWith(prefix) on the highway values of this model
startsWith(osmType, prefix) ==
    \/ osmType = prefix
    \/ osmType = "motorway_link" /\ prefix = "motorway"
    \/ osmType = "primary_link" /\ prefix = "primary"

categorizeRoadType(osmType) ==
    IF osmType \in RoadTypeValues THEN osmType
    ELSE CASE startsWith(osmType, "motorway") -> "motorway"
           [] startsWith(osmType, "trunk") -> "trunk"
           [] startsWith(osmType, "primary") -> "primary"
           [] startsWith(osmType, "secondary") -> "secondary"
           [] startsWith(osmType, "tertiary") -> "tertiary"
           [] startsWith(osmType, "residential") -> "residential"
           [] startsWith(osmType, "service") -> "service"
           [] startsWith(osmType, "track") -> "track"
           [] startsWith(osmType, "path") -> "path"
           [] startsWith(osmType, "footway") \/ osmType = "pedestrian" -> "footway"
           [] startsWith(osmType, "cycleway") -> "cycleway"
           [] osmType = "steps" -> "steps"
           [] osmType = "unclassified" -> "unclassified"
           [] OTHER -> "other"

categorizeFeatureType(featureType, originalType) ==
    IF featureType = "railway"
    THEN IF originalType \in {"rail", "light_rail", "subway", "tram"}
         THEN "railway_major" ELSE "railway_minor"
    ELSE IF featureType = "waterway"
    THEN IF originalType \in {"river", "canal"}
         THEN "waterway_major" ELSE "waterway_minor"
    ELSE "other"

-----------------------------------------------------------------------------
(* roadUtils.getCalculatedAngle *)

\* svgPoints[i] with the source's 0-based index
At(points, i) == points[i + 1]

\* A span of one sample at least
LookSpan_AtLeastOne(n) == Max2(1, Min2(3, n \div 10))

LookSpan(n) == Min2(3, n \div 10)

\* The tangent angle without the upside-down normalisation
getCalculatedAngle_Raw(points) ==
    IF Len(points) <= 1 THEN 0
    ELSE LET midPointIndex == Len(points) \div 2
             p1Index == Max2(0, midPointIndex - LookSpan(Len(points)))
             p2Index == Min2(Len(points) - 1, midPointIndex + LookSpan(Len(points)))
             p1 == At(points, p1Index)
             p2 == At(points, p2Index)
         IN  Atan2Deg(p2[2] - p1[2], p2[1] - p1[1])

getCalculatedAngle(points) ==
    IF Len(points) <= 1 THEN 0
    ELSE LET midPointIndex == Len(points) \div 2
             p1Index == Max2(0, midPointIndex - LookSpan(Len(points)))
             p2Index == Min2(Len(points) - 1, midPointIndex + LookSpan(Len(points)))
             p1 == At(points, p1Index)
             p2 == At(points, p2Index)
             angle == Atan2Deg(p2[2] - p1[2], p2[1] - p1[1])
         IN  IF angle > 90 \/ angle < -90 THEN angle + 180 ELSE angle

-----------------------------------------------------------------------------
(* Label priority sort, shared by exportToSVG and exportToDXF *)

typeOrder(t) ==
    CASE t = "motorway" -> 1
      [] t = "trunk" -> 2
      [] t = "primary" -> 3
      [] t = "secondary" -> 4
      [] t = "tertiary" -> 5
      [] t = "residential" -> 6
      [] t = "unclassified" -> 7
      [] OTHER -> 8

\* a.type || 'unclassified'
TypeOf(road) == IF Has(road, "type") /\ road.type # "" THEN road.type ELSE "unclassified"

\* The sort comparator: negative when a goes before b.  exportToSVG compares
\* points.length and exportToDXF svgPoints.length; svgPoints is points.map(...),
\* so the two lengths are the same number.
compareRoads(a, b) ==
    LET aOrder == typeOrder(TypeOf(a))
        bOrder == typeOrder(TypeOf(b))
    IN  IF aOrder # bOrder THEN aOrder - bOrder
        ELSE Len(b.svgPoints) - Len(a.svgPoints)

\* Array.prototype.sort is stable: x goes after every element it does not precede
RECURSIVE InsertSorted(_, _)
InsertSorted(sorted, x) ==
    IF sorted = <<>> THEN <<x>>
    ELSE IF compareRoads(x, Head(sorted)) < 0 THEN <<x>> \o sorted
    ELSE <<Head(sorted)>> \o InsertSorted(Tail(sorted), x)

RECURSIVE SortRoads(_)
SortRoads(s) ==
    IF s = <<>> THEN <<>>
    ELSE InsertSorted(SortRoads(SubSeq(s, 1, Len(s) - 1)), s[Len(s)])

-----------------------------------------------------------------------------
(* Pieces shared by the three label renderers *)

\* The first point taken for the midpoint sample
midPointOf_First(points) == At(points, 0)

\* Math.floor(points.length / 2) and the midpoint sample
midPointOf(points) == At(points, Len(points) \div 2)

\* road.featureType || 'highway'
FeatureTypeOf(road) ==
    IF Has(road, "featureType") /\ road.featureType # "" THEN road.featureType
    ELSE "highway"

\* hasCustomPosition looking at the X offset only
hasCustomPosition_XOnly(road) == OffsetOf(road, 1) # 0

\* const hasCustomPosition = offsetX !== 0 || offsetY !== 0
hasCustomPosition(road) == OffsetOf(road, 1) # 0 \/ OffsetOf(road, 2) # 0

\* The positions registered under some name or other
existingPositions_AnyName(drawnLabels, name) ==
    IF DOMAIN drawnLabels = {} THEN <<>>
    ELSE drawnLabels[CHOOSE n \in DOMAIN drawnLabels : TRUE]

\* drawnLabels.get(name) || []
existingPositions(drawnLabels, name) ==
    IF name \in DOMAIN drawnLabels THEN drawnLabels[name] ELSE <<>>

-----------------------------------------------------------------------------
(* exportToSVG *)

\* distance < MIN_LABEL_DISTANCE between two drawing-space positions
svgTooClose(labelPos, pos) ==
    LET dx == labelPos[1] - pos[1]
        dy == labelPos[2] - pos[2]
    IN  dx * dx + dy * dy < MIN_LABEL_DISTANCE * MIN_LABEL_DISTANCE

\* roads.filter(road => road.name && (road.showName !== false))
svgHasNameToDraw(road) == road.name # "" /\ road.showName # FALSE

svgRoadsWithNamesToDraw(rs) == SortRoads(SelectSeq(rs, svgHasNameToDraw))

svgLabelPos(road) ==
    <<midPointOf(road.svgPoints)[1] + OffsetOf(road, 1),
      midPointOf(road.svgPoints)[2] + OffsetOf(road, 2)>>

svgLabelAngle(road) ==
    IF Has(road, "customAngle") THEN road.customAngle
    ELSE getCalculatedAngle(road.svgPoints)

svgRoadText(road) ==
    [kind |-> "road", id |-> road.id, text |-> road.name,
     x |-> svgLabelPos(road)[1], y |-> svgLabelPos(road)[2],
     fontSize |-> OrDefault(road, "fontSize", DEFAULT_ROAD_FONT_SIZE),
     angle |-> svgLabelAngle(road)]

\* The second pass of exportToSVG over the sorted roads, from a given registry.
\* acc = [drawn |-> the drawnLabels map, texts |-> the <text> elements so far]
RECURSIVE svgDrawLabels(_, _)
svgDrawLabels(sorted, acc) ==
    IF sorted = <<>> THEN acc
    ELSE LET road == Head(sorted)
             rest == Tail(sorted)
         IN  IF Len(road.svgPoints) = 0 THEN svgDrawLabels(rest, acc)
             ELSE IF hasCustomPosition(road)
                  THEN svgDrawLabels(rest, [acc EXCEPT !.texts = Append(@, svgRoadText(road))])
             ELSE LET existing == existingPositions(acc.drawn, road.name)
                      isTooClose == \E k \in 1..Len(existing) :
                                       svgTooClose(svgLabelPos(road), existing[k])
                  IN  IF isTooClose THEN svgDrawLabels(rest, acc)
                      ELSE svgDrawLabels(rest,
                             [drawn |-> (road.name :> Append(existing, svgLabelPos(road)))
                                            @@ acc.drawn,
                              texts |-> Append(acc.texts, svgRoadText(road))])

\* A registry that outlives the call
svgFreshRegistry_Kept(leftover) == leftover

\* const drawnLabels = new Map()
svgFreshRegistry(leftover) == <<>>

\* First pass: one <path> per road of the list that has points
svgHasPath(road) == Len(road.svgPoints) # 0

svgPathOf(road) ==
    [id |-> road.id, featureType |-> FeatureTypeOf(road), d |-> road.svgPoints]

MapSeq(s, F(_)) == [i \in 1..Len(s) |-> F(s[i])]

svgStandaloneVisible(label) == label.visible

svgStandaloneText(label) ==
    [kind |-> "standalone", id |-> label.id, text |-> label.text,
     x |-> label.position[1], y |-> label.position[2],
     fontSize |-> OrDefault(label, "fontSize", DEFAULT_LABEL_FONT_SIZE),
     angle |-> OrDefault(label, "angle", 0)]

\* The SVG document and the registry a call builds, the registry starting as `registry`
exportToSVG(rs, labels, registry) ==
    LET placed == svgDrawLabels(svgRoadsWithNamesToDraw(rs),
                                [drawn |-> registry, texts |-> <<>>])
    IN  [paths |-> MapSeq(SelectSeq(rs, svgHasPath), svgPathOf),
         texts |-> placed.texts
                     \o MapSeq(SelectSeq(labels, svgStandaloneVisible), svgStandaloneText),
         drawn |-> placed.drawn]

-----------------------------------------------------------------------------
(* exportToDXF *)

\* First pass: the roads whose points enter minY / maxY
dxfIsDrawn(road) == road.visible /\ Len(road.svgPoints) >= 2

dxfDrawnYs(rs) ==
    UNION {{rs[i].svgPoints[k][2] : k \in 1..Len(rs[i].svgPoints)} :
             i \in {j \in 1..Len(rs) : dxfIsDrawn(rs[j])}}

SetMin(S) == CHOOSE m \in S : \A n \in S : m <= n
SetMax(S) == CHOOSE m \in S : \A n \in S : m >= n

\* 2 * midY, where midY = (minY + maxY) / 2; NaN when no road is drawn
twoMidY(rs) ==
    IF dxfDrawnYs(rs) = {} THEN NaN
    ELSE Num(SetMin(dxfDrawnYs(rs)) + SetMax(dxfDrawnYs(rs)))

\* 2 * midY - y
flipY(mid2, y) == NumSub(mid2, Num(y))

layerNameOf(road) ==
    CASE FeatureTypeOf(road) = "railway" -> "Railways"
      [] FeatureTypeOf(road) = "waterway" -> "Waterways"
      [] OTHER -> "Roads"

\* Math.floor(length / spacing) for length = Math.sqrt(d2)
tiesAlong(d2, spacing) ==
    CHOOSE n \in 0..d2 :
        /\ (n * spacing) * (n * spacing) <= d2
        /\ d2 < ((n + 1) * spacing) * ((n + 1) * spacing)

\* What is drawn for a railway segment of (dx, dy): nothing when its length is below 0.001;
\* else a rail at 2 units to either side, and when numTies > 0 a tie at each
\* t = j / numTies of the segment, reaching 1.2 * 2 units to either side
railsAndTies(dx, dy, spacing) ==
    LET d2 == dx * dx + dy * dy
        numTies == tiesAlong(d2, spacing)
    IN  IF d2 = 0 THEN [rails |-> {}, ties |-> {}, tieReach |-> Rat(0, 1)]
        ELSE [rails |-> {2, -2},
              ties |-> IF numTies > 0 THEN {Rat(j, numTies) : j \in 0..numTies} ELSE {},
              tieReach |-> RMul(Rat(12, 10), RatOf(2))]

\* addRailwaySegment(p1Flipped, p2Flipped, layerName): one tie every 15 units
addRailwaySegment(dx, dy) == railsAndTies(dx, dy, 15)

\* The railway branch of svgExport/index.ts: one tie every 10 units
stringRailwaySegment(dx, dy) == railsAndTies(dx, dy, 10)

\* RoadPaths' RailwayPath: the segments of a railway, one tie every 10 units
RailwayPath(road) ==
    IF Len(road.svgPoints) < 2 THEN <<>>
    ELSE LET segment(i) ==
                 [id |-> road.id, i |-> i - 1,
                  railway |-> railsAndTies(road.svgPoints[i + 1][1] - road.svgPoints[i][1],
                                           road.svgPoints[i + 1][2] - road.svgPoints[i][2],
                                           10)]
         IN  SelectSeq([i \in 1..(Len(road.svgPoints) - 1) |-> segment(i)],
                       LAMBDA seg : seg.railway.rails # {})

\* Segment i (0-based) of a drawn road: dxf.addLine, or addRailwaySegment on the
\* flipped end points for a railway
dxfSegment(road, i, mid2) ==
    LET p1 == At(road.svgPoints, i)
        p2 == At(road.svgPoints, i + 1)
    IN  [id |-> road.id,
         i |-> i,
         railway |-> IF FeatureTypeOf(road) = "railway"
                     THEN addRailwaySegment(p2[1] - p1[1],
                                            NumSub(flipY(mid2, p2[2]), flipY(mid2, p1[2])).v)
                     ELSE [rails |-> {}, ties |-> {}, tieReach |-> Rat(0, 1)],
         call |-> IF FeatureTypeOf(road) = "railway" THEN "addRailwaySegment"
                  ELSE "addLine",
         layerName |-> layerNameOf(road),
         x1 |-> p1[1], y1 |-> flipY(mid2, p1[2]),
         x2 |-> p2[1], y2 |-> flipY(mid2, p2[2])]

dxfRoadSegments(road, mid2) ==
    [i \in 1..(Len(road.svgPoints) - 1) |-> dxfSegment(road, i - 1, mid2)]

RECURSIVE dxfLines(_, _)
dxfLines(rs, mid2) ==
    IF rs = <<>> THEN <<>>
    ELSE (IF dxfIsDrawn(Head(rs)) THEN dxfRoadSegments(Head(rs), mid2) ELSE <<>>)
            \o dxfLines(Tail(rs), mid2)

\* roads.filter(road => road.visible && road.showName && road.name)
dxfHasNameToDraw(road) == road.visible /\ road.showName /\ road.name # ""

dxfRoadsWithNamesToDraw(rs) == SortRoads(SelectSeq(rs, dxfHasNameToDraw))

\* [midPoint[0] + offsetX, flippedY - offsetY]
dxfLabelPos(road, mid2) ==
    <<midPointOf(road.svgPoints)[1] + OffsetOf(road, 1),
      NumSub(flipY(mid2, midPointOf(road.svgPoints)[2]), Num(OffsetOf(road, 2)))>>

dxfLabelAngle(road) ==
    IF Has(road, "customAngle") THEN -road.customAngle
    ELSE IF Len(road.svgPoints) > 1
    THEN LET midPointIndex == Len(road.svgPoints) \div 2
             p1Index == Max2(0, midPointIndex - LookSpan(Len(road.svgPoints)))
             p2Index == Min2(Len(road.svgPoints) - 1,
                             midPointIndex + LookSpan(Len(road.svgPoints)))
             p1 == At(road.svgPoints, p1Index)
             p2 == At(road.svgPoints, p2Index)
             angle == -Atan2Deg(p2[2] - p1[2], p2[1] - p1[1])
         IN  IF angle > 90 \/ angle < -90 THEN angle + 180 ELSE angle
    ELSE 0

\* distance < MIN_LABEL_DISTANCE; false when the distance is NaN
dxfTooClose(labelPos, pos) ==
    LET dx == labelPos[1] - pos[1]
        dy == NumSub(labelPos[2], pos[2])
    IN  /\ ~dy.nan
        /\ dx * dx + dy.v * dy.v < MIN_LABEL_DISTANCE * MIN_LABEL_DISTANCE

dxfRoadText(road, mid2) ==
    [kind |-> "road", id |-> road.id, text |-> road.name,
     x |-> dxfLabelPos(road, mid2)[1], y |-> dxfLabelPos(road, mid2)[2],
     fontSize |-> OrDefault(road, "fontSize", DEFAULT_ROAD_FONT_SIZE),
     rotation |-> dxfLabelAngle(road)]

RECURSIVE dxfDrawLabels(_, _, _)
dxfDrawLabels(sorted, mid2, acc) ==
    IF sorted = <<>> THEN acc
    ELSE LET road == Head(sorted)
             rest == Tail(sorted)
         IN  IF Len(road.svgPoints) = 0 THEN dxfDrawLabels(rest, mid2, acc)
             ELSE IF hasCustomPosition(road)
                  THEN dxfDrawLabels(rest, mid2,
                         [acc EXCEPT !.texts = Append(@, dxfRoadText(road, mid2))])
             ELSE LET existing == existingPositions(acc.drawn, road.name)
                      isTooClose == \E k \in 1..Len(existing) :
                                       dxfTooClose(dxfLabelPos(road, mid2), existing[k])
                  IN  IF isTooClose THEN dxfDrawLabels(rest, mid2, acc)
                      ELSE dxfDrawLabels(rest, mid2,
                             [drawn |-> (road.name :> Append(existing, dxfLabelPos(road, mid2)))
                                            @@ acc.drawn,
                              texts |-> Append(acc.texts, dxfRoadText(road, mid2))])

\* const drawnLabels = new Map()
dxfFreshRegistry(leftover) == <<>>

dxfStandaloneVisible(label) == label.visible

dxfStandaloneText(label, mid2) ==
    [kind |-> "standalone", id |-> label.id, text |-> label.text,
     x |-> label.position[1], y |-> flipY(mid2, label.position[2]),
     fontSize |-> OrDefault(label, "fontSize", DEFAULT_LABEL_FONT_SIZE),
     rotation |-> -OrDefault(label, "angle", 0)]

\* The DXF document and the registry a call builds, the registry starting as `registry`
exportToDXF(rs, labels, registry) ==
    LET mid2 == twoMidY(rs)
        placed == dxfDrawLabels(dxfRoadsWithNamesToDraw(rs), mid2,
                                [drawn |-> registry, texts |-> <<>>])
        shown == SelectSeq(labels, dxfStandaloneVisible)
    IN  [lines |-> dxfLines(rs, mid2),
         texts |-> placed.texts
                     \o [i \in 1..Len(shown) |-> dxfStandaloneText(shown[i], mid2)],
         drawn |-> placed.drawn]

-----------------------------------------------------------------------------
(* svgExport/index.ts: the exportToSVG that returns the SVG as a string *)

\* roads.filter(road => road.visible && ...), no options given
stringVisibleRoads(rs) == SelectSeq(rs, LAMBDA road : road.visible)

stringClassOf(road) ==
    CASE FeatureTypeOf(road) = "railway" -> "railway"
      [] FeatureTypeOf(road) = "waterway" -> "waterway"
      [] OTHER -> "road"

\* A railway is drawn segment by segment (rails and ties), segments of no length
\* are skipped; anything else is one path through all the points
stringRoadPaths(road) ==
    IF FeatureTypeOf(road) = "railway"
    THEN LET segment(i) == [id |-> road.id, class |-> "railway",
                            i |-> i - 1,
                            railway |->
                                stringRailwaySegment(
                                    road.svgPoints[i + 1][1] - road.svgPoints[i][1],
                                    road.svgPoints[i + 1][2] - road.svgPoints[i][2]),
                            points |-> <<road.svgPoints[i], road.svgPoints[i + 1]>>]
         IN  SelectSeq([i \in 1..(Len(road.svgPoints) - 1) |-> segment(i)],
                       LAMBDA seg : seg.points[1] # seg.points[2])
    ELSE <<[id |-> road.id, class |-> stringClassOf(road), points |-> road.svgPoints]>>

\* if (road.name): the name five units above the midpoint sample
stringRoadText(road) ==
    LET midPoint == At(road.svgPoints, Len(road.svgPoints) \div 2)
    IN  [kind |-> "road", id |-> road.id, text |-> road.name,
         x |-> midPoint[1], y |-> midPoint[2] - 5]

stringLabelText(label) ==
    [kind |-> "standalone", id |-> label.id, text |-> label.text,
     x |-> label.position[1], y |-> label.position[2]]

RECURSIVE stringPaths(_)
stringPaths(rs) ==
    IF rs = <<>> THEN <<>>
    ELSE (IF Len(Head(rs).svgPoints) < 2 THEN <<>> ELSE stringRoadPaths(Head(rs)))
            \o stringPaths(Tail(rs))

exportToSVGString(rs, labels) ==
    LET visibleRoads == stringVisibleRoads(rs)
        named == SelectSeq(visibleRoads,
                           LAMBDA road : Len(road.svgPoints) >= 2 /\ road.name # "")
    IN  IF visibleRoads = <<>> /\ labels = <<>>
        THEN [paths |-> <<>>, texts |-> <<>>]
        ELSE [paths |-> stringPaths(visibleRoads),
              texts |-> MapSeq(named, stringRoadText) \o MapSeq(labels, stringLabelText)]

-----------------------------------------------------------------------------
(* RoadLabels: the road-name labels of the interactive preview *)

\* !road.visible || !road.showName || !road.name || !road.svgPoints?.length => null
previewHasLabel(road) ==
    road.visible /\ road.showName /\ road.name # "" /\ Len(road.svgPoints) # 0

previewRoadText(road) ==
    LET midPoint == midPointOf(road.svgPoints)
        labelPos == <<midPoint[1] + OffsetOf(road, 1), midPoint[2] + OffsetOf(road, 2)>>
    IN  [kind |-> "road", id |-> road.id, text |-> road.name,
         x |-> labelPos[1], y |-> labelPos[2],
         fontSize |-> OrDefault(road, "fontSize", DEFAULT_ROAD_FONT_SIZE),
         angle |-> IF Has(road, "customAngle") THEN road.customAngle
                   ELSE getCalculatedAngle(road.svgPoints)]

RoadLabels(rs) == MapSeq(SelectSeq(rs, previewHasLabel), previewRoadText)

-----------------------------------------------------------------------------
(* Export snapshots the specifications start from *)

MaxRoads == 2
MaxCalls == 2

\* n points from `start`, `step` apart
Polyline(start, step, n) ==
    [i \in 1..n |-> <<start[1] + (i - 1) * step[1], start[2] + (i - 1) * step[2]>>]

\* Midpoint samples: gTwo (110,100), gFive (200,220), gOne (150,130), gNear (110,160),
\* gLong (350,450).  gTwo-gFive are exactly 150 apart, gTwo-gNear 60, gTwo-gOne 50,
\* gLong is more than 150 from all the others.
gTwo  == Polyline(<<100, 100>>, <<10, 0>>, 2)
gFive == Polyline(<<180, 220>>, <<10, 0>>, 5)
gOne  == Polyline(<<150, 130>>, <<0, 0>>, 1)
gNear == Polyline(<<110, 150>>, <<0, 10>>, 2)
gLong == Polyline(<<400, 500>>, <<-10, -10>>, 11)
gNone == <<>>

\* A road as processOverpassResponse builds it, without its id
NewRoad(name, type, svgPoints) ==
    [name |-> name, type |-> type, featureType |-> "highway",
     visible |-> TRUE, showName |-> TRUE, svgPoints |-> svgPoints]

WithOffset(road, off) == ("labelOffset" :> off) @@ road

WithAngle(road, angle) == ("customAngle" :> angle) @@ road

WithFontSize(road, size) == ("fontSize" :> size) @@ road

\* Same-named shown roads of two categories on the four short geometries
ShownRoads ==
    {NewRoad("Main St", t, g) : t \in {"motorway", "residential"},
                                g \in {gTwo, gFive, gOne, gNear}}

\* The same with a labelOffset: (0,0), and non-zero in one axis
OffsetRoads ==
    {WithOffset(NewRoad("Main St", "motorway", gTwo), <<0, 0>>),
     WithOffset(NewRoad("Main St", "residential", gNear), <<0, 0>>),
     WithOffset(NewRoad("Main St", "residential", gTwo), <<0, -20>>),
     WithOffset(NewRoad("Main St", "residential", gNear), <<0, -20>>),
     WithOffset(NewRoad("Main St", "residential", gOne), <<0, -20>>),
     WithOffset(NewRoad("Main St", "motorway", gNear), <<0, -20>>),
     WithOffset(NewRoad("Main St", "residential", gNear), <<20, 0>>),
     WithOffset(NewRoad("Main St", "motorway", gTwo), <<20, 0>>)}

\* Roads the label filters drop, or that carry another name
OtherRoads ==
    {[NewRoad("Main St", "residential", g) EXCEPT !.visible = FALSE] : g \in {gTwo, gNear}}
      \cup {[NewRoad("Main St", "motorway", gTwo) EXCEPT !.showName = FALSE],
            NewRoad("", "residential", gTwo),
            NewRoad("Main St", "residential", gNone),
            NewRoad("Oak Ave", "motorway", gNear)}

\* A long road with a tangent, rotated and resized labels, a river and a railway
StyledRoads ==
    {NewRoad("Main St", "motorway", gLong),
     WithFontSize(WithAngle(NewRoad("Main St", "motorway", gLong), 30), 14),
     [NewRoad("Main St", "waterway_major", gTwo) EXCEPT !.featureType = "waterway"],
     [NewRoad("Oak Ave", "railway_major", gNear) EXCEPT !.featureType = "railway"]}

ExportRoads == ShownRoads \cup OffsetRoads \cup OtherRoads \cup StyledRoads

WithIds(rs) == [i \in 1..Len(rs) |-> ("id" :> ToString(i)) @@ rs[i]]

SeqsUpTo(S, n) == UNION {[1..k -> S] : k \in 0..n}

\* A standalone label as handleBackgroundClick creates it
NewLabel(id, text, position) ==
    [id |-> id, text |-> text, position |-> position,
     fontSize |-> 12, angle |-> 0, visible |-> TRUE]

\* No label, one label, a label on a road's anchor carrying the road's name next
\* to a hidden label, and two labels of the same text at the same place
ExportLabels ==
    {<<>>,
     <<NewLabel("label-1", "Depot", <<300, 200>>)>>,
     <<NewLabel("label-1", "Main St", <<110, 100>>),
       [NewLabel("label-2", "Depot", <<300, 200>>) EXCEPT !.visible = FALSE]>>,
     <<NewLabel("label-1", "Main St", <<110, 100>>),
       NewLabel("label-2", "Main St", <<110, 100>>)>>}

NoSvg == [calls |-> 0, paths |-> <<>>, texts |-> <<>>]
NoDxf == [calls |-> 0, lines |-> <<>>, texts |-> <<>>]

InitOutputs ==
    /\ svgOut = NoSvg
    /\ svgString = NoSvg
    /\ svgDrawnLabels = <<>>
    /\ dxfOut = NoDxf
    /\ dxfDrawnLabels = <<>>

\* Nothing handed to getCalculatedAngle
NoAngle == [done |-> FALSE, angle |-> 0]

IdleAngle ==
    /\ geometry = <<>>
    /\ labelAngle = NoAngle

NewBounds(west, south, east, north) ==
    [west |-> west, south |-> south, east |-> east, north |-> north]

DefaultCanvas == <<DEFAULT_SVG_WIDTH, DEFAULT_SVG_HEIGHT>>

IdleTransform ==
    /\ bounds = NewBounds(0, 0, 10, 10)
    /\ canvas = DefaultCanvas
    /\ trail = <<>>

NoResponse == [status |-> "none", nodes |-> <<>>, ways |-> <<>>]

\* null where an id is expected, and where a selection rectangle is
Null == "null"
NoRect == [startX |-> 0, startY |-> 0, width |-> 0, height |-> 0, null |-> TRUE]

\* No editor mounted
NoEditor == [mounted |-> FALSE]

\* Where the pointer is while no button is held on it
Nowhere == <<-1, -1>>

\* The pointer at rest outside the drawing
MouseAway == [down |-> FALSE, over |-> "page", at |-> Nowhere]

\* dxfPreviewData and cachedExportData when null
NoPreview == [null |-> TRUE]
NoCache == [null |-> TRUE]

\* App as it is constructed
NoApp == [showEditor |-> FALSE, roads |-> <<>>, dxfPreviewData |-> NoPreview,
          cachedExportData |-> NoCache]

IdleEditor ==
    /\ app = NoApp
    /\ state = NoEditor
    /\ selectionRect = NoRect
    /\ isDrawing = FALSE
    /\ isPanning = FALSE
    /\ rotateListeners = <<>>
    /\ timers = 0
    /\ mouse = MouseAway
    /\ events = 0

Init ==
    /\ roads \in {WithIds(rs) : rs \in SeqsUpTo(ExportRoads, MaxRoads)}
    /\ standaloneLabels \in ExportLabels
    /\ InitOutputs
    /\ IdleAngle
    /\ IdleTransform
    /\ response = NoResponse
    /\ IdleEditor

\* Geometries for getCalculatedAngle: every length up to MaxPoints in each of the
\* eight compass directions, and a run of coincident points
MaxPoints == 30

Steps == {<<dx, dy>> : dx \in {-10, 0, 10}, dy \in {-10, 0, 10}}

AngleGeometries ==
    {Polyline(<<400, 300>>, step, n) : step \in Steps, n \in 0..MaxPoints}

InitAngle ==
    /\ geometry \in AngleGeometries
    /\ labelAngle = NoAngle
    /\ roads = <<>>
    /\ standaloneLabels = <<>>
    /\ InitOutputs
    /\ IdleTransform
    /\ response = NoResponse
    /\ IdleEditor

\* Bounds and points for the coordinate transforms: every non-degenerate bounds
\* with edges in 0..MaxCoord, east of west or west of east alike
MaxCoord == 3
MaxHops == 2

TransformBounds ==
    {b \in {NewBounds(west, south, east, north) :
                west \in 0..MaxCoord, south \in 0..MaxCoord,
                east \in 0..MaxCoord, north \in 0..MaxCoord} :
        b.east # b.west /\ b.north # b.south}

Canvases == {DefaultCanvas, <<3, 2>>}

GeoPoints == {<<RatOf(lon), RatOf(lat)>> : lon \in 0..MaxCoord, lat \in 0..MaxCoord}

SvgPoints == {<<RatOf(x), RatOf(y)>> : x \in {0, 1, 800}, y \in {0, 7, 600}}

InitTransform ==
    /\ bounds \in TransformBounds
    /\ canvas \in Canvases
    /\ trail \in {<<[space |-> "geo", at |-> p]>> : p \in GeoPoints}
                   \cup {<<[space |-> "svg", at |-> q]>> : q \in SvgPoints}
    /\ roads = <<>>
    /\ standaloneLabels = <<>>
    /\ InitOutputs
    /\ IdleAngle
    /\ response = NoResponse
    /\ IdleEditor

\* Overpass responses: four nodes and ways of at most two of them
MaxWays == 1

ResponseNodes == <<<<1, 1>>, <<9, 9>>, <<5, 5>>, <<1, 9>>>>

WayTags ==
    {[highway |-> "motorway", name |-> "Test Rd"],
     [highway |-> "motorway_link", name |-> "Test Rd"],
     [highway |-> "residential"],
     [highway |-> "proposed"],
     [railway |-> "rail", name |-> "Test Rd"],
     [waterway |-> "stream", name |-> "Test Rd"],
     [railway |-> "rail"],
     [waterway |-> "stream"]}

WayNodes == {<<a>> : a \in 1..2} \cup {<<a, b>> : a, b \in 1..Len(ResponseNodes)}

Ways == {[tags |-> t, nodes |-> ns] : t \in WayTags, ns \in WayNodes}

WithWayIds(ws) == [i \in 1..Len(ws) |-> ("id" :> i) @@ ws[i]]

Responses ==
    {[status |-> "received", nodes |-> ResponseNodes, ways |-> WithWayIds(ws)] :
        ws \in SeqsUpTo(Ways, MaxWays)}

ResponseBounds == {NewBounds(0, 0, 10, 10), NewBounds(0, 0, 20, 20)}

InitEndToEnd ==
    /\ response \in Responses
    /\ bounds \in ResponseBounds
    /\ canvas = DefaultCanvas
    /\ trail = <<>>
    /\ roads = <<>>
    /\ standaloneLabels = <<>>
    /\ InitOutputs
    /\ IdleAngle
    /\ IdleEditor

-----------------------------------------------------------------------------
(* Actions *)

\* The caller's array after exportToSVG: [...roads] is a new array, filter returns another, and
\* sort reorders the one it is called on
svgRoadsAfterExport_SortedInPlace(rs) == SortRoads(rs)

svgRoadsAfterExport(rs) == rs

\* The caller's array after exportToDXF: roads.filter(...) is a new array, which sort reorders
dxfRoadsAfterExport(rs) == rs

\* handleFinalExport with format 'svg', or a direct call
ExportToSVG ==
    /\ svgOut.calls < MaxCalls
    /\ LET doc == exportToSVG(roads, standaloneLabels, svgFreshRegistry(svgDrawnLabels))
       IN  /\ svgOut' = [calls |-> svgOut.calls + 1, paths |-> doc.paths, texts |-> doc.texts]
           /\ svgDrawnLabels' = doc.drawn
    /\ roads' = svgRoadsAfterExport(roads)
    /\ UNCHANGED <<standaloneLabels, dxfOut, dxfDrawnLabels, svgString>>
    /\ UNCHANGED <<angleVars, transformVars, response, editorVars, appVars>>

\* handleFinalExport with format 'dxf', or the preview's download
ExportToDXF ==
    /\ dxfOut.calls < MaxCalls
    /\ LET doc == exportToDXF(roads, standaloneLabels, dxfFreshRegistry(dxfDrawnLabels))
       IN  /\ dxfOut' = [calls |-> dxfOut.calls + 1, lines |-> doc.lines, texts |-> doc.texts]
           /\ dxfDrawnLabels' = doc.drawn
    /\ roads' = dxfRoadsAfterExport(roads)
    /\ UNCHANGED <<standaloneLabels, svgOut, svgDrawnLabels, svgString>>
    /\ UNCHANGED <<angleVars, transformVars, response, editorVars, appVars>>

\* A call of svgExport/index.ts's exportToSVG
ExportToSVGString ==
    /\ svgString.calls < MaxCalls
    /\ LET doc == exportToSVGString(roads, standaloneLabels)
       IN  svgString' = [calls |-> svgString.calls + 1, paths |-> doc.paths,
                         texts |-> doc.texts]
    /\ UNCHANGED <<roads, standaloneLabels, svgOut, svgDrawnLabels, dxfOut, dxfDrawnLabels>>
    /\ UNCHANGED <<angleVars, transformVars, response, editorVars, appVars>>

Next == ExportToSVG \/ ExportToDXF \/ ExportToSVGString

Spec == Init /\ [][Next]_vars

\* A call of getCalculatedAngle on the geometry
GetCalculatedAngle ==
    /\ ~labelAngle.done
    /\ labelAngle' = [done |-> TRUE, angle |-> getCalculatedAngle(geometry)]
    /\ UNCHANGED <<geometry, exportVars, transformVars, response, editorVars, appVars>>

NextAngle == GetCalculatedAngle

SpecAngle == InitAngle /\ [][NextAngle]_vars

Last(s) == s[Len(s)]

\* A call of transformToSVGCoords on the latest geographic point
TransformToSVGCoords ==
    /\ Len(trail) \in 1..MaxHops
    /\ Last(trail).space = "geo"
    /\ trail' = Append(trail,
                       [space |-> "svg",
                        at |-> transformToSVGCoords(Last(trail).at, bounds,
                                                    canvas[1], canvas[2])])
    /\ UNCHANGED <<bounds, canvas, exportVars, angleVars, response, editorVars, appVars>>

\* A call of transformToGeoCoords on the latest drawing point
TransformToGeoCoords ==
    /\ Len(trail) \in 1..MaxHops
    /\ Last(trail).space = "svg"
    /\ trail' = Append(trail,
                       [space |-> "geo",
                        at |-> transformToGeoCoords(Last(trail).at, bounds,
                                                    canvas[1], canvas[2])])
    /\ UNCHANGED <<bounds, canvas, exportVars, angleVars, response, editorVars, appVars>>

NextTransform == TransformToSVGCoords \/ TransformToGeoCoords

SpecTransform == InitTransform /\ [][NextTransform]_vars

\* element.type === 'way' && element.tags && (highway && significant || railway || waterway)
isWanted(way) ==
    \/ Has(way.tags, "highway") /\ isSignificantRoad(way.tags)
    \/ Has(way.tags, "railway")
    \/ Has(way.tags, "waterway")

featureTypeOfWay(way) ==
    IF Has(way.tags, "highway") THEN "highway"
    ELSE IF Has(way.tags, "railway") THEN "railway"
    ELSE IF Has(way.tags, "waterway") THEN "waterway"
    ELSE "other"

originalTypeOfWay(way) ==
    IF Has(way.tags, "highway") THEN way.tags.highway
    ELSE IF Has(way.tags, "railway") THEN way.tags.railway
    ELSE IF Has(way.tags, "waterway") THEN way.tags.waterway
    ELSE ""

processOverpassResponse(data, b) ==
    LET roadOf(way) ==
            LET points == [k \in 1..Len(way.nodes) |->
                              <<RatOf(data.nodes[way.nodes[k]][1]),
                                RatOf(data.nodes[way.nodes[k]][2])>>]
                svgPoints == [k \in 1..Len(points) |->
                                 LET p == transformToSVGCoords(points[k], b,
                                              DEFAULT_SVG_WIDTH, DEFAULT_SVG_HEIGHT)
                                 IN  <<Whole(p[1]), Whole(p[2])>>]
                featureType == featureTypeOfWay(way)
                originalType == originalTypeOfWay(way)
            IN  [id |-> ToString(way.id),
                 name |-> IF Has(way.tags, "name") THEN way.tags.name ELSE "",
                 type |-> IF featureType = "highway" THEN categorizeRoadType(originalType)
                          ELSE categorizeFeatureType(featureType, originalType),
                 originalType |-> originalType,
                 featureType |-> featureType,
                 visible |-> TRUE,
                 showName |-> TRUE,
                 points |-> points,
                 svgPoints |-> svgPoints]
    IN  MapSeq(SelectSeq(data.ways, isWanted), roadOf)

\* fetchRoadData: the response is turned into the roads of the editor
ProcessOverpassResponse ==
    /\ response.status = "received"
    /\ roads' = processOverpassResponse(response, bounds)
    /\ response' = [response EXCEPT !.status = "processed"]
    /\ UNCHANGED <<standaloneLabels, svgOut, svgDrawnLabels, dxfOut, dxfDrawnLabels,
                   svgString>>
    /\ UNCHANGED <<angleVars, transformVars, editorVars, appVars>>

\* The editor's export of the fetched roads, all of them visible
ExportFetchedToSVG ==
    /\ response.status = "processed"
    /\ ExportToSVG

ExportFetchedToDXF ==
    /\ response.status = "processed"
    /\ ExportToDXF

NextEndToEnd == ProcessOverpassResponse \/ ExportFetchedToSVG \/ ExportFetchedToDXF

SpecEndToEnd == InitEndToEnd /\ [][NextEndToEnd]_vars

-----------------------------------------------------------------------------
(* The editor: EditorContext's reducer *)

\* array.slice(0, n)
Slice(arr, n) == SubSeq(arr, 1, Min2(n, Len(arr)))

\* An action handed to dispatch
Act(type, payload) == [type |-> type, payload |-> payload]

\* road.name is set and not empty
Named(road) == Has(road, "name") /\ road.name # ""

\* SET_EDITOR_MODE
setEditorMode_KeepTool(s, payload) ==
    [s EXCEPT !.editorMode = payload,
              !.selectedLabelId = IF payload = "labelEdit" THEN @ ELSE Null,
              !.selectedStandaloneLabel = IF payload = "labelEdit" THEN @ ELSE Null]

setEditorMode_KeepSelection(s, payload) ==
    [s EXCEPT !.editorMode = payload,
              !.selectionMode = IF payload = "selection" THEN @ ELSE "none"]

setEditorMode(s, payload) ==
    [s EXCEPT !.editorMode = payload,
              !.selectionMode = IF payload = "selection" THEN @ ELSE "none",
              !.selectedLabelId = IF payload = "labelEdit" THEN @ ELSE Null,
              !.selectedStandaloneLabel = IF payload = "labelEdit" THEN @ ELSE Null]

\* ADD_STANDALONE_LABEL
addStandaloneLabel_Replace(s, payload) ==
    [s EXCEPT !.standaloneLabels = <<payload>>]

addStandaloneLabel(s, payload) ==
    [s EXCEPT !.standaloneLabels = Append(@, payload)]

\* SAVE_TO_HISTORY
saveToHistory_KeepRedo(s, payload) ==
    [s EXCEPT !.history = Append(@, payload),
              !.historyIndex = @ + 1]

saveToHistory(s, payload) ==
    [s EXCEPT !.history = Append(Slice(@, s.historyIndex + 1), payload),
              !.historyIndex = @ + 1]

\* UNDO: history[i] of the source is history[i + 1] here
undo(s) ==
    IF s.historyIndex > 0
    THEN [s EXCEPT !.historyIndex = @ - 1,
                   !.roads = s.history[s.historyIndex],
                   !.standaloneLabels =
                       IF s.historyIndex <= Len(s.labelHistory)
                       THEN s.labelHistory[s.historyIndex]
                       ELSE @]
    ELSE s

editorReducer(s, action) ==
    LET p == action.payload
        mapRoads(f(_)) == [s EXCEPT !.roads = [i \in DOMAIN @ |-> f(@[i])]]
        mapLabels(f(_)) == [s EXCEPT !.standaloneLabels = [i \in DOMAIN @ |-> f(@[i])]]
    IN CASE action.type = "SET_ROADS" -> [s EXCEPT !.roads = p]
         [] action.type = "TOGGLE_ROAD_VISIBILITY" ->
                mapRoads(LAMBDA road :
                    IF road.id = p THEN [road EXCEPT !.visible = ~@] ELSE road)
         [] action.type = "TOGGLE_ROAD_NAME" ->
                mapRoads(LAMBDA road :
                    IF road.id = p THEN [road EXCEPT !.showName = ~@] ELSE road)
         [] action.type = "SET_EDITOR_MODE" -> setEditorMode(s, p)
         [] action.type = "SET_SELECTION_MODE" -> [s EXCEPT !.selectionMode = p]
         [] action.type = "SELECT_LABEL" -> [s EXCEPT !.selectedLabelId = p]
         [] action.type = "SELECT_STANDALONE_LABEL" ->
                [s EXCEPT !.selectedStandaloneLabel = p]
         [] action.type = "UPDATE_ROAD_LABEL_OFFSET" ->
                mapRoads(LAMBDA road :
                    IF road.id = p.id THEN ("labelOffset" :> p.offset) @@ road ELSE road)
         [] action.type = "UPDATE_ROAD_FONT_SIZE" ->
                mapRoads(LAMBDA road :
                    IF road.id = p.id
                    THEN ("fontSize" :>
                            Max2(6, Min2(20, OrDefault(road, "fontSize", 10) + p.delta)))
                         @@ road
                    ELSE road)
         [] action.type = "UPDATE_ROAD_ANGLE" ->
                mapRoads(LAMBDA road :
                    IF road.id = p.id THEN ("customAngle" :> p.angle) @@ road ELSE road)
         [] action.type = "ADD_STANDALONE_LABEL" -> addStandaloneLabel(s, p)
         [] action.type = "UPDATE_STANDALONE_LABEL" ->
                mapLabels(LAMBDA label :
                    IF label.id = p.id THEN p.updates @@ label ELSE label)
         [] action.type = "DELETE_STANDALONE_LABEL" ->
                [s EXCEPT !.standaloneLabels = SelectSeq(@, LAMBDA label : label.id # p),
                          !.selectedStandaloneLabel = IF @ = p THEN Null ELSE @]
         [] action.type = "TOGGLE_STANDALONE_LABEL_VISIBILITY" ->
                mapLabels(LAMBDA label :
                    IF label.id = p THEN [label EXCEPT !.visible = ~@] ELSE label)
         [] action.type = "SET_DRAGGED_LABEL_ID" -> [s EXCEPT !.draggedLabelId = p]
         [] action.type = "SET_DRAGGED_STANDALONE_LABEL" ->
                [s EXCEPT !.draggedStandaloneLabel = p]
         [] action.type = "SET_IS_ROTATING" -> [s EXCEPT !.isRotating = p]
         [] action.type = "SET_IGNORE_BACKGROUND_CLICK" ->
                [s EXCEPT !.ignoreBackgroundClick = p]
         [] action.type = "SET_NEW_LABEL_TEXT" -> [s EXCEPT !.newLabelText = p]
         [] action.type = "SAVE_TO_HISTORY" -> saveToHistory(s, p)
         [] action.type = "SAVE_LABEL_TO_HISTORY" ->
                [s EXCEPT !.labelHistory = Append(Slice(@, s.historyIndex + 1), p)]
         [] action.type = "UNDO" -> undo(s)
         [] action.type = "SELECT_ALL_ROADS" ->
                mapRoads(LAMBDA road : [road EXCEPT !.visible = TRUE])
         [] action.type = "DESELECT_ALL_ROADS" ->
                mapRoads(LAMBDA road : [road EXCEPT !.visible = FALSE])
         [] action.type = "SELECT_NAMED_ROADS_ONLY" ->
                mapRoads(LAMBDA road : [road EXCEPT !.visible = Named(road)])
         [] action.type = "TOGGLE_ALL_ROAD_NAMES" ->
                mapRoads(LAMBDA road : [road EXCEPT !.showName = p])
         [] action.type = "TOGGLE_ROAD_TYPE_VISIBILITY" ->
                mapRoads(LAMBDA road :
                    IF road.type = p.roadType
                    THEN [road EXCEPT !.visible = p.visible] ELSE road)
         [] action.type = "TOGGLE_FEATURE_TYPE_VISIBILITY" ->
                mapRoads(LAMBDA road :
                    IF road.featureType = p.featureType
                    THEN [road EXCEPT !.visible = p.visible] ELSE road)
         [] OTHER -> s

\* dispatch called once per action, in order
RECURSIVE dispatch(_, _)
dispatch(s, actions) ==
    IF actions = <<>> THEN s
    ELSE dispatch(editorReducer(s, Head(actions)), Tail(actions))

(* The editor: what it is mounted with *)

MaxHistory == 3      \* entries the history may hold
MaxLabels == 2       \* standalone labels on the canvas
MaxTimers == 2       \* pending setTimeout callbacks
MaxListeners == 1    \* rotation closures registered on document
MaxNow == 2          \* distinct readings of Date.now()
MaxEvents == 9       \* user events in a session

\* The roads RoadEditorContainer hands to the EditorProvider: a named street
\* and an unnamed railway
InitialRoads ==
    <<[id |-> "way-1", name |-> "Main St", type |-> "residential",
       featureType |-> "highway", visible |-> TRUE,
       svgPoints |-> <<<<0, 0>>, <<20, 20>>>>],
      [id |-> "way-2", name |-> "", type |-> "rail", featureType |-> "railway", visible |-> TRUE,
       svgPoints |-> <<<<50, 50>>, <<70, 70>>>>]>>

processedInitialRoads(initialRoads) ==
    [i \in DOMAIN initialRoads |->
        [showName |-> IF Has(initialRoads[i], "showName")
                      THEN initialRoads[i].showName ELSE TRUE,
         labelOffset |-> IF Has(initialRoads[i], "labelOffset")
                         THEN initialRoads[i].labelOffset ELSE <<0, 0>>,
         fontSize |-> OrDefault(initialRoads[i], "fontSize", 10)]
        @@ initialRoads[i]]

\* The state useReducer starts from
initialState(initialRoads) ==
    [roads |-> processedInitialRoads(initialRoads),
     standaloneLabels |-> <<>>,
     editorMode |-> "selection",
     selectionMode |-> "none",
     selectedLabelId |-> Null,
     selectedStandaloneLabel |-> Null,
     history |-> <<processedInitialRoads(initialRoads)>>,
     historyIndex |-> 0,
     labelHistory |-> << <<>> >>,
     draggedLabelId |-> Null,
     draggedStandaloneLabel |-> Null,
     isRotating |-> FALSE,
     ignoreBackgroundClick |-> FALSE,
     newLabelText |-> "New Label"]

\* Where the pointer can be, in drawing-space coordinates
Pointer == {<<10, 10>>, <<30, 30>>}

EditorModes == {"selection", "labelEdit", "textAdd"}
LabelTexts == {"New Label", "Depot"}

\* `label-${Date.now()}`
LabelId(t) == "label-" \o ToString(t)

InitEditor ==
    /\ app = [NoApp EXCEPT !.roads = InitialRoads, !.showEditor = TRUE]
    /\ state = initialState(InitialRoads)
    /\ selectionRect = NoRect
    /\ isDrawing = FALSE
    /\ isPanning = FALSE
    /\ rotateListeners = <<>>
    /\ timers = 0
    /\ mouse = MouseAway
    /\ events = 0
    /\ roads = <<>>
    /\ standaloneLabels = <<>>
    /\ InitOutputs
    /\ IdleAngle
    /\ IdleTransform
    /\ response = NoResponse

\* What keeps a run finite
Bounded(s) ==
    /\ Len(s.history) <= MaxHistory
    /\ Len(s.standaloneLabels) <= MaxLabels

(* The editor: its handlers *)

hookVars == <<selectionRect, isDrawing, isPanning, rotateListeners>>
otherVars == <<exportVars, angleVars, transformVars, response, appVars>>

\* roads.find(r => r.id === id), as a list of at most one road
findById(list, id) ==
    LET hits == {i \in DOMAIN list : list[i].id = id}
    IN IF hits = {} THEN <<>> ELSE <<list[SetMin(hits)]>>

IdsOf(list) == {list[i].id : i \in DOMAIN list}

\* road.svgPoints[Math.floor(road.svgPoints.length / 2)]
labelMidPoint(road) == At(road.svgPoints, Len(road.svgPoints) \div 2)

\* setTimeout(() => dispatch(SET_IGNORE_BACKGROUND_CLICK false), 100), n times
SetTimeout(n) ==
    /\ timers + n <= MaxTimers
    /\ timers' = timers + n

\* One more user event
Event ==
    /\ events < MaxEvents
    /\ events' = events + 1

\* A click on a control beside the drawing
OnPage ==
    /\ Event
    /\ ~mouse.down
    /\ mouse.over = "page"
    /\ UNCHANGED <<mouse, timers>>

\* A click on something drawn
OnDrawing ==
    /\ Event
    /\ ~mouse.down
    /\ mouse.over = "svg"
    /\ UNCHANGED mouse

\* The button goes down over the drawing, at p
Press(p) ==
    /\ Event
    /\ ~mouse.down
    /\ mouse.over = "svg"
    /\ mouse' = [mouse EXCEPT !.down = TRUE, !.at = p]

\* The label RoadLabels draws for a road, which is what its handlers hang on
hasLabel(road) == road.visible /\ road.showName /\ Named(road)

LabelledRoadIds == {state.roads[i].id : i \in {j \in DOMAIN state.roads : hasLabel(state.roads[j])}}

\* A handler that only dispatches
Handle(actions) ==
    /\ state' = dispatch(state, actions)
    /\ Bounded(state')
    /\ UNCHANGED <<hookVars, otherVars>>

\* RoadListItem.toggleRoad
ToggleRoad ==
    \E id \in IdsOf(state.roads) :
        /\ Handle(<<Act("TOGGLE_ROAD_VISIBILITY", id), Act("SAVE_TO_HISTORY", <<>>)>>)
        /\ OnPage

\* RoadListItem.toggleRoadName
ToggleRoadName ==
    \E id \in IdsOf(state.roads) :
        /\ Handle(<<Act("TOGGLE_ROAD_NAME", id), Act("SAVE_TO_HISTORY", <<>>)>>)
        /\ OnPage

\* RoadList.selectAllRoads
SelectAllRoads ==
    /\ Handle(<<Act("SELECT_ALL_ROADS", Null), Act("SAVE_TO_HISTORY", <<>>)>>)
    /\ OnPage

\* RoadList.deselectAllRoads
DeselectAllRoads ==
    /\ Handle(<<Act("DESELECT_ALL_ROADS", Null), Act("SAVE_TO_HISTORY", <<>>)>>)
    /\ OnPage

\* RoadList.selectNamedRoadsOnly
SelectNamedRoadsOnly ==
    /\ Handle(<<Act("SELECT_NAMED_ROADS_ONLY", Null), Act("SAVE_TO_HISTORY", <<>>)>>)
    /\ OnPage

\* RoadList.toggleAllRoadNames
ToggleAllRoadNames ==
    \E show \in BOOLEAN :
        /\ Handle(<<Act("TOGGLE_ALL_ROAD_NAMES", show), Act("SAVE_TO_HISTORY", <<>>)>>)
        /\ OnPage

\* RoadTypeGroup.toggleGroupVisibility, the group holding the roads of one type
ToggleGroupVisibility ==
    \E type \in {state.roads[i].type : i \in DOMAIN state.roads} :
        LET group == SelectSeq(state.roads, LAMBDA road : road.type = type)
            visibleRoads == Len(SelectSeq(group, LAMBDA road : road.visible))
            allVisible == visibleRoads = Len(group)
        IN /\ Handle(<<Act("TOGGLE_ROAD_TYPE_VISIBILITY",
                           [roadType |-> type, visible |-> ~allVisible]),
                       Act("SAVE_TO_HISTORY", <<>>)>>)
           /\ OnPage

\* RoadList.allFeatureTypesVisible
allFeatureTypesVisible(list, featureType) ==
    LET featureRoads == SelectSeq(list, LAMBDA road : road.featureType = featureType)
    IN Len(featureRoads) > 0 /\ \A i \in DOMAIN featureRoads : featureRoads[i].visible

\* RoadList.toggleFeatureVisibility
ToggleFeatureVisibility ==
    \E featureType \in {state.roads[i].featureType : i \in DOMAIN state.roads} :
        /\ Handle(<<Act("TOGGLE_FEATURE_TYPE_VISIBILITY",
                        [featureType |-> featureType,
                         visible |-> ~allFeatureTypesVisible(state.roads, featureType)]),
                    Act("SAVE_TO_HISTORY", <<>>)>>)
        /\ OnPage

\* useRectangleSelection.toggleSelectionMode, from the SelectionTools buttons,
\* which are rendered in selection mode only
ToggleSelectionMode ==
    \E mode \in {"select", "deselect"} :
        /\ state.editorMode = "selection"
        /\ state' = dispatch(state, <<Act("SET_SELECTION_MODE",
                        IF state.selectionMode = mode THEN "none" ELSE mode)>>)
        /\ selectionRect' = NoRect
        /\ isDrawing' = FALSE
        /\ OnPage
        /\ UNCHANGED <<isPanning, rotateListeners, otherVars>>

\* EditorModeSelector.toggleEditorMode
ToggleEditorMode ==
    \E mode \in EditorModes :
        /\ Handle(<<Act("SET_EDITOR_MODE",
                        IF state.editorMode = mode THEN "selection" ELSE mode)>>)
        /\ OnPage

\* StandaloneLabelList.toggleEditorMode, the Add Label button
AddLabelButton ==
    /\ Handle(<<Act("SET_EDITOR_MODE", "textAdd")>>)
    /\ OnPage

\* StandaloneLabelList.toggleLabelVisibility
ToggleLabelVisibility ==
    \E id \in IdsOf(state.standaloneLabels) :
        /\ Handle(<<Act("TOGGLE_STANDALONE_LABEL_VISIBILITY", id),
                    Act("SAVE_LABEL_TO_HISTORY",
                        [i \in DOMAIN state.standaloneLabels |->
                            IF state.standaloneLabels[i].id = id
                            THEN [state.standaloneLabels[i] EXCEPT !.visible = ~@]
                            ELSE state.standaloneLabels[i]])>>)
        /\ OnPage

\* StandaloneLabelList.deleteLabel
DeleteLabel ==
    \E id \in IdsOf(state.standaloneLabels) :
        /\ Handle(<<Act("DELETE_STANDALONE_LABEL", id),
                    Act("SAVE_LABEL_TO_HISTORY",
                        SelectSeq(state.standaloneLabels, LAMBDA label : label.id # id))>>)
        /\ OnPage

\* NewLabelInput.handleChange, the input being rendered in textAdd mode only
SetNewLabelText ==
    \E text \in LabelTexts :
        /\ state.editorMode = "textAdd"
        /\ Handle(<<Act("SET_NEW_LABEL_TEXT", text)>>)
        /\ OnPage

\* ExportPanel.handleUndo, from the Undo button, which is disabled at index 0
Undo ==
    /\ state.historyIndex # 0
    /\ Handle(<<Act("UNDO", Null)>>)
    /\ OnPage

\* RoadEditorContainer.handleBackgroundClick: what it dispatches for a click at p
\* when Date.now() reads t
handleBackgroundClick(s, p, t) ==
    LET newLabel == NewLabel(LabelId(t), s.newLabelText, p)
    IN IF s.ignoreBackgroundClick THEN <<>>
       ELSE IF s.editorMode = "textAdd"
       THEN <<Act("ADD_STANDALONE_LABEL", newLabel),
              Act("SAVE_LABEL_TO_HISTORY", Append(s.standaloneLabels, newLabel)),
              Act("SELECT_STANDALONE_LABEL", newLabel.id)>>
       ELSE IF /\ s.editorMode = "labelEdit"
               /\ (s.selectedLabelId # Null \/ s.selectedStandaloneLabel # Null)
               /\ s.draggedLabelId = Null
               /\ s.draggedStandaloneLabel = Null
       THEN (IF s.selectedLabelId # Null THEN <<Act("SELECT_LABEL", Null)>> ELSE <<>>)
            \o (IF s.selectedStandaloneLabel # Null
                THEN <<Act("SELECT_STANDALONE_LABEL", Null)>> ELSE <<>>)
       ELSE <<>>

\* RoadEditorContainer.handleMouseDownCombined: a press at p on the drawing, with
\* the alt key or without, on the background or on a road, Date.now() reading t
MouseDownAt(p, altKey, onBackground, t) ==
    /\ Press(p)
    /\ isPanning' = (isPanning \/ altKey)
    /\ IF ~isPanning /\ state.selectionMode # "none"
       THEN /\ selectionRect' = [startX |-> p[1], startY |-> p[2],
                                 width |-> 0, height |-> 0]
            /\ isDrawing' = TRUE
       ELSE UNCHANGED <<selectionRect, isDrawing>>
    /\ state' = IF ~isPanning /\ onBackground
                THEN dispatch(state, handleBackgroundClick(state, p, t))
                ELSE state
    /\ Bounded(state')
    /\ UNCHANGED <<rotateListeners, timers, otherVars>>

MouseDown ==
    \E p \in Pointer, altKey \in BOOLEAN, onBackground \in BOOLEAN, t \in 1..MaxNow :
        MouseDownAt(p, altKey, onBackground, t)

\* useLabelEditing.handleLabelDrag with the [0, 0] the container passes
handleLabelDrag(s, p, dragOffset) ==
    LET road == findById(s.roads, s.draggedLabelId)
    IN IF s.draggedLabelId = Null \/ road = <<>> THEN <<>>
       ELSE <<Act("UPDATE_ROAD_LABEL_OFFSET",
                  [id |-> s.draggedLabelId,
                   offset |-> <<p[1] - labelMidPoint(road[1])[1] - dragOffset[1],
                                p[2] - labelMidPoint(road[1])[2] - dragOffset[2]>>])>>

\* handleRotateMove storing the angle of the pointer as it is measured
handleRotateMove_Raw(c, p) ==
    LET road == findById(c.roads, c.draggedLabelId)
        dx == p[1] - (labelMidPoint(road[1])[1] + OffsetOf(road[1], 1))
        dy == p[2] - (labelMidPoint(road[1])[2] + OffsetOf(road[1], 2))
        angle == Atan2Deg(dy, dx)
    IN IF ~c.isRotating \/ c.draggedLabelId = Null \/ road = <<>> THEN <<>>
       ELSE <<Act("UPDATE_ROAD_ANGLE", [id |-> c.draggedLabelId, angle |-> angle])>>

\* useLabelEditing.handleRotateMove as the closure c registered on document runs it
handleRotateMove(c, p) ==
    LET road == findById(c.roads, c.draggedLabelId)
        dx == p[1] - (labelMidPoint(road[1])[1] + OffsetOf(road[1], 1))
        dy == p[2] - (labelMidPoint(road[1])[2] + OffsetOf(road[1], 2))
        angle == Atan2Deg(dy, dx)
    IN IF ~c.isRotating \/ c.draggedLabelId = Null \/ road = <<>> THEN <<>>
       ELSE <<Act("UPDATE_ROAD_ANGLE",
                  [id |-> c.draggedLabelId,
                   angle |-> IF angle > 90 \/ angle < -90 THEN angle + 180 ELSE angle])>>

\* useLabelEditing.handleRotateEnd as the closure c runs it
handleRotateEnd(c) ==
    <<Act("SET_IS_ROTATING", FALSE)>>
    \o (IF c.draggedLabelId # Null
        THEN <<Act("SAVE_TO_HISTORY", c.roads), Act("SET_DRAGGED_LABEL_ID", Null)>>
        ELSE <<>>)

\* What every registered closure dispatches, in the order of registration
RECURSIVE eachListener(_, _, _)
eachListener(listeners, p, kind) ==
    IF listeners = <<>> THEN <<>>
    ELSE (IF kind = "move" THEN handleRotateMove(Head(listeners), p)
          ELSE handleRotateEnd(Head(listeners)))
         \o eachListener(Tail(listeners), p, kind)

\* A mousemove to p: RoadEditorContainer.handleMouseMoveCombined when the pointer
\* is over the drawing, then the listeners on document
MouseMoveTo(p) ==
        LET overSvg == mouse.over = "svg" IN
        /\ Event
        /\ mouse' = IF mouse.down THEN [mouse EXCEPT !.at = p] ELSE mouse
        /\ overSvg \/ rotateListeners # <<>>
        /\ IF overSvg /\ ~isPanning /\ isDrawing /\ selectionRect # NoRect
           THEN selectionRect' = [selectionRect EXCEPT !.width = p[1] - selectionRect.startX,
                                                       !.height = p[2] - selectionRect.startY]
           ELSE UNCHANGED selectionRect
        /\ state' = dispatch(state,
                        (IF overSvg THEN handleLabelDrag(state, p, <<0, 0>>) ELSE <<>>)
                        \o eachListener(rotateListeners, p, "move"))
        /\ UNCHANGED <<isDrawing, isPanning, rotateListeners, timers, otherVars>>

MouseMove == \E p \in Pointer : MouseMoveTo(p)

\* useRectangleSelection.handleMouseUp: the roads with a point in the rectangle
\* take the visibility of the selection mode
rectNewRoads(s, rect) ==
    LET x == IF rect.width < 0 THEN rect.startX + rect.width ELSE rect.startX
        y == IF rect.height < 0 THEN rect.startY + rect.height ELSE rect.startY
        width == Abs(rect.width)
        height == Abs(rect.height)
        isInside(road) ==
            \E i \in DOMAIN road.svgPoints :
                /\ road.svgPoints[i][1] >= x
                /\ road.svgPoints[i][1] <= x + width
                /\ road.svgPoints[i][2] >= y
                /\ road.svgPoints[i][2] <= y + height
    IN [i \in DOMAIN s.roads |->
           IF isInside(s.roads[i])
           THEN [s.roads[i] EXCEPT !.visible = (s.selectionMode = "select")]
           ELSE s.roads[i]]

\* RoadEditorContainer.handleMouseUpCombined: what it dispatches
handleMouseUpCombined(s) ==
    (IF ~isPanning /\ isDrawing /\ selectionRect # NoRect
     THEN <<Act("SET_ROADS", rectNewRoads(s, selectionRect)),
            Act("SAVE_TO_HISTORY", rectNewRoads(s, selectionRect))>>
     ELSE <<>>)
    \o (IF s.draggedLabelId # Null
        THEN <<Act("SAVE_TO_HISTORY", s.roads), Act("SET_DRAGGED_LABEL_ID", Null)>>
        ELSE <<>>)

\* What useRectangleSelection.handleMouseUp leaves in the hook's own state; the
\* container skips it while panning
RectangleMouseUp ==
    IF isPanning THEN UNCHANGED <<selectionRect, isDrawing>>
    ELSE IF ~isDrawing \/ selectionRect = NoRect
    THEN isDrawing' = FALSE /\ UNCHANGED selectionRect
    ELSE isDrawing' = FALSE /\ selectionRect' = NoRect

\* A mouseup: over the drawing handleMouseUpCombined runs and then the listeners
\* on document, elsewhere on the page the listeners alone
MouseUp ==
    LET overSvg == mouse.over = "svg" IN
        /\ Event
        /\ mouse.down
        /\ mouse' = [mouse EXCEPT !.down = FALSE, !.at = Nowhere]
        /\ state' = dispatch(state,
                        (IF overSvg THEN handleMouseUpCombined(state) ELSE <<>>)
                        \o eachListener(rotateListeners, <<0, 0>>, "end"))
        /\ Bounded(state')
        /\ IF overSvg THEN isPanning' = FALSE /\ RectangleMouseUp
           ELSE UNCHANGED <<selectionRect, isDrawing, isPanning>>
        /\ SetTimeout((IF overSvg /\ state.draggedLabelId # Null THEN 1 ELSE 0)
                      + Len(rotateListeners))
        /\ rotateListeners' = <<>>
        /\ UNCHANGED otherVars

\* The pointer leaves the drawing: onMouseLeave is handleMouseUpCombined too
MouseLeave ==
    /\ Event
    /\ mouse.over = "svg"
    /\ mouse' = [mouse EXCEPT !.over = "page", !.at = Nowhere]
    /\ state' = dispatch(state, handleMouseUpCombined(state))
    /\ Bounded(state')
    /\ isPanning' = FALSE
    /\ RectangleMouseUp
    /\ SetTimeout(IF state.draggedLabelId # Null THEN 1 ELSE 0)
    /\ UNCHANGED <<rotateListeners, otherVars>>

\* The pointer comes over the drawing, which has no handler for it
MouseEnter ==
    /\ Event
    /\ mouse.over = "page"
    /\ mouse' = [mouse EXCEPT !.over = "svg"]
    /\ UNCHANGED <<state, hookVars, timers, otherVars>>

\* useLabelEditing.handleLabelDragStart; the container drops the drag offset it
\* returns
LabelDragStart ==
    \E roadId \in LabelledRoadIds, p \in Pointer :
        /\ state.editorMode = "labelEdit"
        /\ Handle(<<Act("SET_IGNORE_BACKGROUND_CLICK", TRUE),
                    Act("SET_DRAGGED_LABEL_ID", roadId),
                    Act("SELECT_LABEL", roadId)>>)
        /\ Press(p)
        /\ UNCHANGED timers

\* useLabelEditing.handleLabelClick
LabelClick ==
    \E roadId \in LabelledRoadIds :
        /\ OnDrawing
        /\ state.editorMode = "labelEdit"
        /\ Handle(<<Act("SET_IGNORE_BACKGROUND_CLICK", TRUE),
                    Act("SELECT_LABEL",
                        IF state.selectedLabelId = roadId THEN Null ELSE roadId)>>)
        /\ SetTimeout(1)

\* useLabelEditing.handleFontSizeChange
FontSizeChange ==
    \E roadId \in LabelledRoadIds, delta \in {-1, 1} :
        /\ OnDrawing
        /\ Handle(<<Act("SET_IGNORE_BACKGROUND_CLICK", TRUE),
                    Act("UPDATE_ROAD_FONT_SIZE", [id |-> roadId, delta |-> delta]),
                    Act("SAVE_TO_HISTORY",
                        [i \in DOMAIN state.roads |->
                            IF state.roads[i].id = roadId
                            THEN ("fontSize" :>
                                    Max2(6, Min2(20, OrDefault(state.roads[i], "fontSize", 10)
                                                     + delta)))
                                 @@ state.roads[i]
                            ELSE state.roads[i]])>>)
        /\ SetTimeout(1)

\* useLabelEditing.handleRotateStart: the listeners it puts on document are the
\* handleRotateMove and handleRotateEnd of this render, which keep seeing the
\* roads, draggedLabelId and isRotating of this render
RotateStart ==
    \E roadId \in LabelledRoadIds, p \in Pointer :
        /\ Len(rotateListeners) < MaxListeners
        /\ Press(p)
        /\ state' = dispatch(state, <<Act("SET_IS_ROTATING", TRUE),
                                      Act("SET_DRAGGED_LABEL_ID", roadId),
                                      Act("SELECT_LABEL", roadId),
                                      Act("SET_IGNORE_BACKGROUND_CLICK", TRUE)>>)
        /\ rotateListeners' = Append(rotateListeners,
                                     [roads |-> state.roads,
                                      draggedLabelId |-> state.draggedLabelId,
                                      isRotating |-> state.isRotating])
        /\ UNCHANGED <<selectionRect, isDrawing, isPanning, timers, otherVars>>

\* useLabelEditing.handleStandaloneLabelDragStart
StandaloneLabelDragStart ==
    \E labelId \in IdsOf(state.standaloneLabels), p \in Pointer :
        /\ state.editorMode = "labelEdit"
        /\ Handle(<<Act("SET_IGNORE_BACKGROUND_CLICK", TRUE),
                    Act("SET_DRAGGED_STANDALONE_LABEL", labelId),
                    Act("SELECT_STANDALONE_LABEL", labelId)>>)
        /\ Press(p)
        /\ UNCHANGED timers

\* useLabelEditing.handleStandaloneLabelDrag, the drag offset being [0, 0]
StandaloneLabelDrag ==
    \E p \in Pointer :
        /\ Event
        /\ mouse.down
        /\ state.draggedStandaloneLabel # Null
        /\ findById(state.standaloneLabels, state.draggedStandaloneLabel) # <<>>
        /\ Handle(<<Act("UPDATE_STANDALONE_LABEL",
                        [id |-> state.draggedStandaloneLabel,
                         updates |-> [position |-> p]])>>)
        /\ mouse' = [mouse EXCEPT !.at = p]
        /\ UNCHANGED timers

\* useLabelEditing.handleStandaloneLabelDragEnd
StandaloneLabelDragEnd ==
    /\ Event
    /\ mouse.down
    /\ mouse' = [mouse EXCEPT !.down = FALSE, !.at = Nowhere]
    /\ state.draggedStandaloneLabel # Null
    /\ Handle(<<Act("SAVE_LABEL_TO_HISTORY", state.standaloneLabels),
                Act("SET_DRAGGED_STANDALONE_LABEL", Null)>>)
    /\ SetTimeout(1)

\* useLabelEditing.handleStandaloneLabelClick
StandaloneLabelClick ==
    \E labelId \in IdsOf(state.standaloneLabels) :
        /\ OnDrawing
        /\ state.editorMode = "labelEdit"
        /\ Handle(<<Act("SET_IGNORE_BACKGROUND_CLICK", TRUE),
                    Act("SELECT_STANDALONE_LABEL",
                        IF state.selectedStandaloneLabel = labelId THEN Null ELSE labelId)>>)
        /\ SetTimeout(1)

\* A setTimeout callback runs
Timeout ==
    /\ timers > 0
    /\ timers' = timers - 1
    /\ Handle(<<Act("SET_IGNORE_BACKGROUND_CLICK", FALSE)>>)
    /\ UNCHANGED <<mouse, events>>

NextEditor ==
    \/ ToggleRoad \/ ToggleRoadName
    \/ SelectAllRoads \/ DeselectAllRoads \/ SelectNamedRoadsOnly \/ ToggleAllRoadNames
    \/ ToggleGroupVisibility \/ ToggleFeatureVisibility
    \/ ToggleSelectionMode \/ ToggleEditorMode \/ AddLabelButton
    \/ ToggleLabelVisibility \/ DeleteLabel \/ SetNewLabelText
    \/ Undo
    \/ MouseDown \/ MouseMove \/ MouseUp \/ MouseLeave \/ MouseEnter
    \/ LabelDragStart \/ LabelClick \/ FontSizeChange \/ RotateStart
    \/ StandaloneLabelDragStart \/ StandaloneLabelDrag \/ StandaloneLabelDragEnd
    \/ StandaloneLabelClick
    \/ Timeout

SpecEditor == InitEditor /\ [][NextEditor]_vars

\* The editor in a browser, which runs every pending setTimeout callback in the end
SpecEditorLive == InitEditor /\ [][NextEditor]_vars /\ WF_vars(Timeout)

-----------------------------------------------------------------------------
(* The App component: fetching, the editor, the export and the DXF preview *)

\* undefined, as exportToDXF returns it
Undefined == [undefined |-> TRUE]

\* exportToDXF(roads, standaloneLabels, { skipDownload: true }): the try block's string, or what
\* the catch block returns when the DXF writer throws
exportToDXFString(rs, labels, registry, throws) ==
    IF throws THEN Undefined
    ELSE LET doc == exportToDXF(rs, labels, registry)
         IN  [lines |-> doc.lines, texts |-> doc.texts]

\* if (dxfString) { setDxfPreviewData(dxfString) }
previewAfterExport_Unguarded(preview, dxfString) == dxfString

previewAfterExport(preview, dxfString) ==
    IF dxfString = Undefined THEN preview ELSE dxfString

\* showEditor && !dxfPreviewData
EditorShown == app.showEditor /\ app.dxfPreviewData = NoPreview

\* dxfPreviewData && cachedExportData
PreviewShown == app.dxfPreviewData # NoPreview /\ app.cachedExportData # NoCache

\* React mounts <RoadEditorContainer roads={roads}>: EditorProvider starts its reducer from
\* initialRoads, and the hooks from their initial values
MountEditor(initialRoads) ==
    /\ state' = initialState(initialRoads)
    /\ selectionRect' = NoRect
    /\ isDrawing' = FALSE
    /\ isPanning' = FALSE
    /\ rotateListeners' = <<>>
    /\ timers' = 0

\* React unmounts the editor: its reducer's state and its hooks' state are gone, and what its
\* pending callbacks dispatch is dropped
UnmountEditor ==
    /\ state' = NoEditor
    /\ selectionRect' = NoRect
    /\ isDrawing' = FALSE
    /\ isPanning' = FALSE
    /\ rotateListeners' = <<>>
    /\ timers' = 0

\* The editor as the next render has it
Render(wasShown, isShown) ==
    IF wasShown /\ ~isShown THEN UnmountEditor
    ELSE IF ~wasShown /\ isShown THEN MountEditor(app'.roads)
    ELSE UNCHANGED <<state, hookVars, timers>>

\* A click on a button of the page
Click ==
    /\ Event
    /\ ~mouse.down
    /\ mouse.over = "page"
    /\ UNCHANGED mouse

\* App.handleFetchRoads, fetchRoadData having resolved
HandleFetchRoads ==
    /\ ~app.showEditor
    /\ app.dxfPreviewData = NoPreview
    /\ app' = [app EXCEPT !.roads = InitialRoads, !.showEditor = TRUE]
    /\ Render(FALSE, TRUE)
    /\ Click
    /\ UNCHANGED <<exportVars, angleVars, transformVars, response>>

\* RoadEditorContainer.handleExport and App.handleFinalExport with format 'svg'
HandleFinalExportSvg ==
    /\ EditorShown
    /\ svgOut.calls < MaxCalls
    /\ LET exportRoads == SelectSeq(state.roads, LAMBDA road : road.visible)
           labels == SelectSeq(state.standaloneLabels, LAMBDA label : label.visible)
           doc == exportToSVG(exportRoads, labels, svgFreshRegistry(svgDrawnLabels))
       IN  /\ app' = [app EXCEPT !.cachedExportData =
                                     [roads |-> exportRoads, standaloneLabels |-> labels]]
           /\ svgOut' = [calls |-> svgOut.calls + 1, paths |-> doc.paths, texts |-> doc.texts]
           /\ svgDrawnLabels' = doc.drawn
    /\ Click
    /\ UNCHANGED <<state, hookVars, timers>>
    /\ UNCHANGED <<roads, standaloneLabels, dxfOut, dxfDrawnLabels, svgString>>
    /\ UNCHANGED <<angleVars, transformVars, response>>

\* RoadEditorContainer.handleExport and App.handleFinalExport with format 'dxf'
HandleFinalExportDxf(throws) ==
    /\ EditorShown
    /\ dxfOut.calls < MaxCalls
    /\ LET exportRoads == SelectSeq(state.roads, LAMBDA road : road.visible)
           labels == SelectSeq(state.standaloneLabels, LAMBDA label : label.visible)
           dxfString == exportToDXFString(exportRoads, labels,
                                          dxfFreshRegistry(dxfDrawnLabels), throws)
       IN  /\ app' = [app EXCEPT
                         !.cachedExportData =
                             [roads |-> exportRoads, standaloneLabels |-> labels],
                         !.dxfPreviewData = previewAfterExport(@, dxfString)]
           /\ dxfOut' = IF dxfString = Undefined THEN dxfOut
                        ELSE [calls |-> dxfOut.calls + 1, lines |-> dxfString.lines,
                              texts |-> dxfString.texts]
    /\ Render(TRUE, app'.showEditor /\ app'.dxfPreviewData = NoPreview)
    /\ Click
    /\ UNCHANGED <<roads, standaloneLabels, svgOut, svgDrawnLabels, dxfDrawnLabels, svgString>>
    /\ UNCHANGED <<angleVars, transformVars, response>>

HandleFinalExportDxfDone == HandleFinalExportDxf(FALSE)

HandleFinalExportDxfThrows == HandleFinalExportDxf(TRUE)

\* App.handleBackToEdit
HandleBackToEdit ==
    /\ PreviewShown
    /\ app' = [app EXCEPT !.dxfPreviewData = NoPreview]
    /\ Render(FALSE, app'.showEditor)
    /\ Click
    /\ UNCHANGED <<exportVars, angleVars, transformVars, response>>

\* App.handleCloseDxfPreview
HandleCloseDxfPreview ==
    /\ PreviewShown
    /\ app' = [app EXCEPT !.dxfPreviewData = NoPreview, !.cachedExportData = NoCache]
    /\ Render(FALSE, app'.showEditor)
    /\ Click
    /\ UNCHANGED <<exportVars, angleVars, transformVars, response>>

\* The editor while it is shown: the controls of its side panel, and the pointer on the
\* drawing's background
EditRoads ==
    /\ EditorShown
    /\ \/ ToggleRoad \/ ToggleRoadName
       \/ SelectAllRoads \/ DeselectAllRoads \/ SelectNamedRoadsOnly \/ ToggleAllRoadNames
       \/ ToggleGroupVisibility \/ ToggleFeatureVisibility
       \/ ToggleSelectionMode \/ ToggleEditorMode \/ AddLabelButton
       \/ ToggleLabelVisibility \/ DeleteLabel \/ SetNewLabelText
       \/ Undo
       \/ MouseDown \/ MouseMove \/ MouseUp \/ MouseLeave \/ MouseEnter

InitApp ==
    /\ IdleEditor
    /\ roads = <<>>
    /\ standaloneLabels = <<>>
    /\ InitOutputs
    /\ IdleAngle
    /\ IdleTransform
    /\ response = NoResponse

NextApp ==
    \/ HandleFetchRoads
    \/ EditRoads
    \/ HandleFinalExportSvg \/ HandleFinalExportDxfDone \/ HandleFinalExportDxfThrows
    \/ HandleBackToEdit \/ HandleCloseDxfPreview

SpecApp == InitApp /\ [][NextApp]_vars

-----------------------------------------------------------------------------
(* handleRotateMove, as a function of the render it closes over and of the pointer *)

\* Label offsets of the road whose label is rotated
RotateOffsets == {<<0, 0>>, <<10, 10>>, <<-10, -10>>, <<10, 0>>, <<0, -20>>}

\* Where the pointer goes, as seen from the centre of the label: the eight directions of
\* the compass, and the centre itself
Compass == {<<dx, dy>> : dx \in {-10, 0, 10}, dy \in {-10, 0, 10}}

\* The editor with the label of way-1 moved by offset and its rotation under way
rotatingState(offset) ==
    [initialState(<<WithOffset(InitialRoads[1], offset), InitialRoads[2]>>) EXCEPT
        !.editorMode = "labelEdit",
        !.isRotating = TRUE,
        !.draggedLabelId = "way-1",
        !.selectedLabelId = "way-1",
        !.ignoreBackgroundClick = TRUE]

\* A handleRotateMove on document that sees the rotation under way
InitRotate ==
    /\ \E offset \in RotateOffsets :
          /\ state = rotatingState(offset)
          /\ rotateListeners = <<[roads |-> rotatingState(offset).roads,
                                  draggedLabelId |-> "way-1",
                                  isRotating |-> TRUE]>>
    /\ app = [NoApp EXCEPT !.roads = InitialRoads, !.showEditor = TRUE]
    /\ selectionRect = NoRect
    /\ isDrawing = FALSE
    /\ isPanning = FALSE
    /\ timers = 0
    /\ mouse = [down |-> TRUE, over |-> "page", at |-> Nowhere]
    /\ events = 0
    /\ roads = <<>>
    /\ standaloneLabels = <<>>
    /\ InitOutputs
    /\ IdleAngle
    /\ IdleTransform
    /\ response = NoResponse

\* The centre of the label a listener rotates
labelCenter(c) ==
    LET road == findById(c.roads, c.draggedLabelId)[1]
    IN  <<labelMidPoint(road)[1] + OffsetOf(road, 1),
          labelMidPoint(road)[2] + OffsetOf(road, 2)>>

\* A mousemove on document, off the drawing, to the place d away from the label's centre
DocumentMouseMove ==
    \E d \in Compass :
        LET p == <<labelCenter(rotateListeners[1])[1] + d[1],
                   labelCenter(rotateListeners[1])[2] + d[2]>>
        IN  /\ Event
            /\ mouse.down
            /\ mouse.over = "page"
            /\ mouse' = [mouse EXCEPT !.at = p]
            /\ state' = dispatch(state, eachListener(rotateListeners, p, "move"))
            /\ UNCHANGED <<selectionRect, isDrawing, isPanning, rotateListeners, timers,
                           otherVars>>

NextRotate == DocumentMouseMove

SpecRotate == InitRotate /\ [][NextRotate]_vars

-----------------------------------------------------------------------------
(* Vocabulary of the properties *)

SvgRan == svgOut.calls > 0
DxfRan == dxfOut.calls > 0

\* Ids of the roads whose name label a document or the preview shows
LabelledIds(texts) ==
    {texts[k].id : k \in {j \in 1..Len(texts) : texts[j].kind = "road"}}

Idx == 1..Len(roads)

Anchor(r) == r.svgPoints[(Len(r.svgPoints) \div 2) + 1]

NoCustomPosition(r) == ~Has(r, "labelOffset") \/ r.labelOffset = <<0, 0>>

\* Visible, named, showName and with a point to anchor the label at
WantsLabel(r) == r.visible /\ r.showName /\ r.name # "" /\ Len(r.svgPoints) >= 1

Dist2(a, b) == (a[1] - b[1]) * (a[1] - b[1]) + (a[2] - b[2]) * (a[2] - b[2])

WithinRadius(a, b) == Dist2(a, b) < MIN_LABEL_DISTANCE * MIN_LABEL_DISTANCE

Rank(r) == typeOrder(TypeOf(r))

\* roads[i] is before roads[j] in priority order
Before(i, j) ==
    \/ Rank(roads[i]) < Rank(roads[j])
    \/ /\ Rank(roads[i]) = Rank(roads[j])
       /\ \/ Len(roads[i].svgPoints) > Len(roads[j].svgPoints)
          \/ Len(roads[i].svgPoints) = Len(roads[j].svgPoints) /\ i < j

\* Two label-wanting roads without custom position that alone carry their name
LonePairs ==
    {p \in Idx \X Idx :
        /\ p[1] # p[2]
        /\ WantsLabel(roads[p[1]]) /\ WantsLabel(roads[p[2]])
        /\ roads[p[1]].name = roads[p[2]].name
        /\ NoCustomPosition(roads[p[1]]) /\ NoCustomPosition(roads[p[2]])
        /\ \A k \in Idx : roads[k].name = roads[p[1]].name => k \in {p[1], p[2]}}

\* What the proximity rule leaves of the pair's two labels
PairExpected(i, j) ==
    IF WithinRadius(Anchor(roads[i]), Anchor(roads[j]))
    THEN (IF Before(i, j) THEN {roads[i].id} ELSE {roads[j].id})
    ELSE {roads[i].id, roads[j].id}

PairShown(texts, i, j) == LabelledIds(texts) \cap {roads[i].id, roads[j].id}

-----------------------------------------------------------------------------
\* C1: in an export pass, of two same-named label-wanting roads without custom
\* position that alone carry their name, only the one earlier in priority order
\* is labelled when their anchors are less than 150 apart, and both are labelled
\* when they are 150 or more apart -- in the SVG and in the DXF export.
C1_DedupRadius ==
    \A p \in LonePairs :
        /\ SvgRan => PairShown(svgOut.texts, p[1], p[2]) = PairExpected(p[1], p[2])
        /\ DxfRan => PairShown(dxfOut.texts, p[1], p[2]) = PairExpected(p[1], p[2])

-----------------------------------------------------------------------------
\* Roads with a given name whose label a document shows at an automatic position
AutoShown(texts, name) ==
    {i \in Idx : /\ roads[i].name = name
                 /\ NoCustomPosition(roads[i])
                 /\ roads[i].id \in LabelledIds(texts)}

\* Every registered position is the position of a shown automatic label of that
\* name, and there are as many positions as such labels
RegistryIsAutomatic(drawn, texts) ==
    \A name \in DOMAIN drawn :
        /\ Len(drawn[name]) = Cardinality(AutoShown(texts, name))
        /\ \A k \in 1..Len(drawn[name]) :
              \E j \in 1..Len(texts) :
                 /\ texts[j].kind = "road"
                 /\ texts[j].text = name
                 /\ <<texts[j].x, texts[j].y>> = drawn[name][k]
                 /\ \E i \in AutoShown(texts, name) : roads[i].id = texts[j].id

\* Two label-wanting roads that alone carry their name, one with a custom position
CustomPairs ==
    {p \in Idx \X Idx :
        /\ p[1] # p[2]
        /\ WantsLabel(roads[p[1]]) /\ WantsLabel(roads[p[2]])
        /\ roads[p[1]].name = roads[p[2]].name
        /\ ~NoCustomPosition(roads[p[1]])
        /\ \A k \in Idx : roads[k].name = roads[p[1]].name => k \in {p[1], p[2]}}

CustomExempt(texts, drawn) ==
    /\ \A i \in Idx : WantsLabel(roads[i]) /\ ~NoCustomPosition(roads[i])
                         => roads[i].id \in LabelledIds(texts)
    /\ RegistryIsAutomatic(drawn, texts)
    /\ \A p \in CustomPairs : {roads[p[1]].id, roads[p[2]].id} \subseteq LabelledIds(texts)

\* C2: a label-wanting road whose labelOffset is non-zero in an axis is always
\* labelled; its position never enters the registry, which holds exactly the
\* positions of the shown automatic labels; and the other road of its name keeps
\* its label however close it is.
C2_CustomPositionExempt ==
    /\ SvgRan => CustomExempt(svgOut.texts, svgDrawnLabels)
    /\ DxfRan => CustomExempt(dxfOut.texts, dxfDrawnLabels)

\* Both exports ran on a list where a road with a Y-only custom offset comes later
\* in priority order than a same-named automatic label less than 150 away
C2_Witness ==
    /\ SvgRan /\ DxfRan
    /\ \E p \in CustomPairs :
          /\ roads[p[1]].labelOffset[1] = 0
          /\ NoCustomPosition(roads[p[2]])
          /\ Before(p[2], p[1])
          /\ WithinRadius(Anchor(roads[p[1]]), Anchor(roads[p[2]]))
          /\ {roads[p[1]].id, roads[p[2]].id} \subseteq LabelledIds(svgOut.texts)
          /\ {roads[p[1]].id, roads[p[2]].id} \subseteq LabelledIds(dxfOut.texts)

-----------------------------------------------------------------------------
\* Lone pairs of different category rank within the radius, lower rank first
RankedPairs ==
    {p \in LonePairs : /\ Rank(roads[p[1]]) < Rank(roads[p[2]])
                       /\ WithinRadius(Anchor(roads[p[1]]), Anchor(roads[p[2]]))}

\* C3: of two same-named roads within the radius and without custom position,
\* the one of lower category rank is labelled and the other is not, whatever
\* their point counts and their order in the list (a 2-point motorway beats a
\* 5-point residential road).
C3_CategoryBeatsLength ==
    \A p \in RankedPairs :
        /\ SvgRan => PairShown(svgOut.texts, p[1], p[2]) = {roads[p[1]].id}
        /\ DxfRan => PairShown(dxfOut.texts, p[1], p[2]) = {roads[p[1]].id}

-----------------------------------------------------------------------------
\* C4: the preview, the SVG export and the DXF export label the same roads.
C4_BackendsAgree ==
    /\ SvgRan => LabelledIds(svgOut.texts) = LabelledIds(RoadLabels(roads))
    /\ DxfRan => LabelledIds(dxfOut.texts) = LabelledIds(RoadLabels(roads))
    /\ SvgRan /\ DxfRan => LabelledIds(svgOut.texts) = LabelledIds(dxfOut.texts)

-----------------------------------------------------------------------------
\* Y values of the points of the visible roads that are drawn as lines
VisibleYs ==
    UNION {{roads[i].svgPoints[k][2] : k \in 1..Len(roads[i].svgPoints)} :
             i \in {j \in Idx : roads[j].visible /\ Len(roads[j].svgPoints) >= 2}}

\* y is the number 2 * midY - y0
Mirrored(y, y0) ==
    /\ ~y.nan
    /\ VisibleYs # {}
    /\ y.v = SetMin(VisibleYs) + SetMax(VisibleYs) - y0

DrawingAngle(r) ==
    IF Has(r, "customAngle") THEN r.customAngle ELSE getCalculatedAngle(r.svgPoints)

\* rotation is -angle up to a multiple of 360
Negated(rotation, angle) == (rotation + angle) % 360 = 0

LineMirrored(l) ==
    \E i \in Idx : \E k \in 1..(Len(roads[i].svgPoints) - 1) :
        /\ roads[i].id = l.id
        /\ l.x1 = roads[i].svgPoints[k][1]
        /\ Mirrored(l.y1, roads[i].svgPoints[k][2])
        /\ l.x2 = roads[i].svgPoints[k + 1][1]
        /\ Mirrored(l.y2, roads[i].svgPoints[k + 1][2])

RoadTextMirrored(t) ==
    \E i \in Idx :
        /\ roads[i].id = t.id
        /\ t.x = Anchor(roads[i])[1] + OffsetOf(roads[i], 1)
        /\ Mirrored(t.y, Anchor(roads[i])[2] + OffsetOf(roads[i], 2))
        /\ Negated(t.rotation, DrawingAngle(roads[i]))

StandaloneTextMirrored(t) ==
    \E k \in 1..Len(standaloneLabels) :
        /\ standaloneLabels[k].id = t.id
        /\ t.x = standaloneLabels[k].position[1]
        /\ Mirrored(t.y, standaloneLabels[k].position[2])
        /\ Negated(t.rotation, standaloneLabels[k].angle)

\* C6: every line end point of a highway or waterway, every road-label anchor and
\* every standalone-label position the DXF export emits keeps its X and has
\* Y = 2 * midY - (its drawing-space Y), midY being the middle of the Y range of
\* the visible drawn roads; every text rotation is the negated drawing-space
\* angle up to a multiple of 360.
C6_DxfMirror ==
    DxfRan =>
        /\ \A k \in 1..Len(dxfOut.lines) :
              dxfOut.lines[k].call = "addLine" => LineMirrored(dxfOut.lines[k])
        /\ \A k \in 1..Len(dxfOut.texts) :
              IF dxfOut.texts[k].kind = "road" THEN RoadTextMirrored(dxfOut.texts[k])
              ELSE StandaloneTextMirrored(dxfOut.texts[k])

-----------------------------------------------------------------------------
-----------------------------------------------------------------------------
\* C10: exportToSVG and exportToDXF label the same roads of any list.
C10_SvgDxfSameLabels ==
    SvgRan /\ DxfRan => LabelledIds(svgOut.texts) = LabelledIds(dxfOut.texts)

-----------------------------------------------------------------------------
AngleTaken == labelAngle.done /\ Len(geometry) >= 2

\* C5 as stated: for every geometry of at least two points the computed label
\* angle a satisfies -90 < a <= 90.
C5_AngleInHalfOpenRange ==
    AngleTaken => (-90 < labelAngle.angle /\ labelAngle.angle <= 90)

\* C5: for every geometry of at least two points the computed label angle a
\* satisfies -90 <= a <= 90 or 270 < a <= 360: a tangent pointing left is
\* returned as its opposite direction plus 360, and straight up stays -90.
C5_AngleRange ==
    AngleTaken =>
        \/ -90 <= labelAngle.angle /\ labelAngle.angle <= 90
        \/ 270 < labelAngle.angle /\ labelAngle.angle <= 360

\* A tangent pointing down-left has been normalised
C5_Witness ==
    /\ AngleTaken
    /\ Len(geometry) >= 10
    /\ geometry[2][1] < geometry[1][1]
    /\ labelAngle.angle = 315

-----------------------------------------------------------------------------
West == RatOf(bounds.west)
East == RatOf(bounds.east)
South == RatOf(bounds.south)
North == RatOf(bounds.north)

\* C7: a point transformed to the other space and back is the point it was, from
\* geographic and from drawing space alike; the forward map sends the west edge
\* to x = 0, the east edge to x = w, the north edge to y = 0 and the south edge
\* to y = h.
C7_RoundTrip ==
    /\ \A i \in 1..(Len(trail) - 2) : trail[i + 2] = trail[i]
    /\ \A i \in 1..(Len(trail) - 1) :
          trail[i].space = "geo" =>
              /\ trail[i].at[1] = West => trail[i + 1].at[1] = RatOf(0)
              /\ trail[i].at[1] = East => trail[i + 1].at[1] = RatOf(canvas[1])
              /\ trail[i].at[2] = North => trail[i + 1].at[2] = RatOf(0)
              /\ trail[i].at[2] = South => trail[i + 1].at[2] = RatOf(canvas[2])

\* A point off the edges, on bounds given east to west, went there and back
\* through a drawing point with a fractional coordinate
C7_Witness ==
    /\ Len(trail) = 3
    /\ trail[1].space = "geo"
    /\ bounds.east < bounds.west
    /\ trail[1].at[1] \notin {West, East}
    /\ trail[2].at[1][2] # 1
    /\ trail[3] = trail[1]

-----------------------------------------------------------------------------
\* The scenario: bounds (0,0)-(10,10), one motorway "Test Rd" from (1,1) to (9,9)
TestRd ==
    /\ bounds = NewBounds(0, 0, 10, 10)
    /\ canvas = DefaultCanvas
    /\ response.status = "processed"
    /\ response.ways = <<[id |-> 1, tags |-> [highway |-> "motorway", name |-> "Test Rd"],
                          nodes |-> <<1, 2>>]>>

TestRdDrawn == roads # <<>> /\ roads[1].svgPoints = <<<<80, 540>>, <<720, 60>>>>

OneLabelAt(x, y, angles, radius) ==
    /\ Len(svgOut.texts) = 1
    /\ svgOut.texts[1].text = "Test Rd"
    /\ Abs(svgOut.texts[1].x - x) <= radius
    /\ Abs(svgOut.texts[1].y - y) <= radius
    /\ svgOut.texts[1].angle \in angles

\* C9 as stated: the road is drawn from (80,540) to (720,60) and the export shows
\* exactly one label, near (400,300), at about -45 degrees.
C9_LabelAtCentre ==
    (TestRd /\ SvgRan) => (TestRdDrawn /\ OneLabelAt(400, 300, {-45, 315}, 50))

\* C9: the road is drawn from (80,540) to (720,60) and the export shows exactly
\* one label, at the sample point geometry[1] = (720,60), at angle 0.
C9_LabelAtSample ==
    TestRd => (TestRdDrawn /\ (SvgRan => OneLabelAt(720, 60, {0}, 0)))

C9_Witness == TestRd /\ SvgRan /\ Len(svgOut.texts) = 1

-----------------------------------------------------------------------------
StringRan == svgString.calls > 0

RoadTexts(texts) == SelectSeq(texts, LAMBDA t : t.kind = "road")

RoadIds(R(_)) == {roads[i].id : i \in {j \in Idx : R(roads[j])}}

\* Ids of the roads a document draws a path or a line for
DrawnIds(lines) == {lines[k].id : k \in 1..Len(lines)}

VisibleOnly == SelectSeq(roads, LAMBDA r : r.visible)

\* C11: a road with visible = false has no path or line and no name label in the
\* preview, the SVG and the DXF, and each document's road labels are the ones the
\* backend gives for the visible roads alone (a hidden road registers nothing and
\* suppresses nothing).
C11_InvisibleExcluded ==
    LET hidden == RoadIds(LAMBDA r : ~r.visible)
    IN  /\ LabelledIds(RoadLabels(roads)) \cap hidden = {}
        /\ RoadLabels(roads) = RoadLabels(VisibleOnly)
        /\ SvgRan =>
              /\ (DrawnIds(svgOut.paths) \cup LabelledIds(svgOut.texts)) \cap hidden = {}
              /\ svgOut.texts = exportToSVG(VisibleOnly, standaloneLabels, <<>>).texts
              /\ svgDrawnLabels = exportToSVG(VisibleOnly, standaloneLabels, <<>>).drawn
        /\ DxfRan =>
              /\ (DrawnIds(dxfOut.lines) \cup LabelledIds(dxfOut.texts)) \cap hidden = {}
              /\ dxfOut.texts = exportToDXF(VisibleOnly, standaloneLabels, <<>>).texts
              /\ dxfDrawnLabels = exportToDXF(VisibleOnly, standaloneLabels, <<>>).drawn

\* C12: a road with showName = false has no name label in the preview, the SVG
\* (either exportToSVG) and the DXF; the registry of an export holds only
\* positions of labels the export shows, so none of that road; and its geometry
\* is still drawn when it is visible and has two points.
C12_ShowNameFalseUnlabelled ==
    LET unnamed == RoadIds(LAMBDA r : ~r.showName)
        drawn == RoadIds(LAMBDA r : ~r.showName /\ r.visible /\ Len(r.svgPoints) >= 2)
    IN  /\ LabelledIds(RoadLabels(roads)) \cap unnamed = {}
        /\ SvgRan =>
              /\ LabelledIds(svgOut.texts) \cap unnamed = {}
              /\ RegistryIsAutomatic(svgDrawnLabels, svgOut.texts)
              /\ drawn \subseteq DrawnIds(svgOut.paths)
        /\ DxfRan =>
              /\ LabelledIds(dxfOut.texts) \cap unnamed = {}
              /\ RegistryIsAutomatic(dxfDrawnLabels, dxfOut.texts)
              /\ drawn \subseteq DrawnIds(dxfOut.lines)
        /\ StringRan =>
              /\ LabelledIds(svgString.texts) \cap unnamed = {}
              /\ drawn \subseteq DrawnIds(svgString.paths)

\* How many texts of a document are the standalone label `id`
Emitted(texts, id) ==
    Cardinality({k \in 1..Len(texts) : texts[k].kind = "standalone" /\ texts[k].id = id})

StandaloneOnce(texts) ==
    \A k \in 1..Len(standaloneLabels) :
        Emitted(texts, standaloneLabels[k].id) = IF standaloneLabels[k].visible THEN 1 ELSE 0

\* C13: each export emits every visible standalone label exactly once and no
\* hidden one, whatever its text and position, and the road labels and the
\* registry of the export are those it gives with no standalone label at all.
C13_StandaloneUnconditional ==
    /\ SvgRan =>
          /\ StandaloneOnce(svgOut.texts)
          /\ RoadTexts(svgOut.texts) = RoadTexts(exportToSVG(roads, <<>>, <<>>).texts)
          /\ svgDrawnLabels = exportToSVG(roads, <<>>, <<>>).drawn
    /\ DxfRan =>
          /\ StandaloneOnce(dxfOut.texts)
          /\ RoadTexts(dxfOut.texts) = RoadTexts(exportToDXF(roads, <<>>, <<>>).texts)
          /\ dxfDrawnLabels = exportToDXF(roads, <<>>, <<>>).drawn
    /\ StringRan =>
          /\ StandaloneOnce(svgString.texts)
          /\ RoadTexts(svgString.texts) = RoadTexts(exportToSVGString(roads, <<>>).texts)

-----------------------------------------------------------------------------
(* The editor's road list, history and modes *)

\* The list holds the loaded roads, in their order, with their identity and
\* geometry untouched
SameRoadsAsLoaded(list) ==
    /\ Len(list) = Len(InitialRoads)
    /\ \A i \in DOMAIN list :
          /\ list[i].id = InitialRoads[i].id
          /\ list[i].name = InitialRoads[i].name
          /\ list[i].type = InitialRoads[i].type
          /\ list[i].featureType = InitialRoads[i].featureType
          /\ list[i].svgPoints = InitialRoads[i].svgPoints

\* C14: whatever the editor has been through, its road list is the list of the
\* loaded roads: the same ids in the same order, each with its name, type,
\* featureType and geometry unchanged
C14_RoadListPreserved == SameRoadsAsLoaded(state.roads)

\* The entry UNDO would go back to after the current step's commit
TopOfHistory(s) == s.history[s.historyIndex + 1]

\* C15: every step that commits an edit leaves the resulting road list as the
\* entry the history points at, so that UNDO with historyIndex > 0 puts back the
\* list that was current after the previous commit; UNDO with historyIndex = 0
\* changes nothing
C15_UndoRestoresCommitted ==
    [][/\ state'.historyIndex > state.historyIndex => TopOfHistory(state') = state'.roads
       /\ (Undo /\ state.historyIndex > 0) => state'.roads = state.history[state.historyIndex]
       /\ (Undo /\ state.historyIndex = 0) => state' = state]_vars

\* The two lists differ at most in the labelOffset of the road `id`
OnlyOffsetMoved(before, after, id) ==
    /\ Len(after) = Len(before)
    /\ \A i \in DOMAIN before :
          IF before[i].id = id
          THEN [after[i] EXCEPT !.labelOffset = before[i].labelOffset] = before[i]
          ELSE after[i] = before[i]

\* A pointer move while a road label is held and no rotation is under way
DragMove ==
    /\ MouseMove
    /\ state.draggedLabelId # Null
    /\ rotateListeners = <<>>

\* The release, or the pointer leaving the drawing, that ends such a drag
DragEnd ==
    /\ MouseUp \/ MouseLeave
    /\ state.draggedLabelId # Null
    /\ rotateListeners = <<>>

\* C16: a label drag starts from the road list the history points at, its moves
\* change only the dragged road's labelOffset and leave the history alone, and
\* its end appends exactly one entry and raises historyIndex by one: a single
\* UNDO after the drag puts back the list the drag started from
C16_DragIsOneUndoStep ==
    [][/\ LabelDragStart => TopOfHistory(state) = state.roads
       /\ DragMove => /\ state'.history = state.history
                      /\ state'.historyIndex = state.historyIndex
                      /\ OnlyOffsetMoved(state.roads, state'.roads, state.draggedLabelId)
       /\ DragEnd => /\ state'.historyIndex = state.historyIndex + 1
                     /\ Len(state'.history) = state.historyIndex + 2
                     /\ Slice(state'.history, state.historyIndex + 1)
                            = Slice(state.history, state.historyIndex + 1)
                     /\ undo(state').roads = TopOfHistory(state)]_vars

\* A press on the background that adds a label
LabelAdded ==
    /\ MouseDown
    /\ Len(state'.standaloneLabels) > Len(state.standaloneLabels)

\* C17: after a label is added by a background click, deleted, shown or hidden,
\* or dropped at the end of a drag, UNDO is enabled, and after the first three
\* UNDO puts standaloneLabels back to what it was before the change
C17_LabelChangeIsOneUndoStep ==
    [][/\ (LabelAdded \/ DeleteLabel \/ ToggleLabelVisibility) =>
              /\ state'.historyIndex > 0
              /\ undo(state').standaloneLabels = state.standaloneLabels
       /\ StandaloneLabelDragEnd => state'.historyIndex > 0]_vars

\* C18: a press on the background in textAdd mode, background clicks not being
\* ignored, appends one visible label at the pointer with the text of
\* newLabelText and leaves the roads, the mode and the labels already there as
\* they were; in the other modes it leaves the labels as they were
C18_BackgroundClickAddsLabel ==
    [][\A p \in Pointer, altKey \in BOOLEAN, t \in 1..MaxNow :
          MouseDownAt(p, altKey, TRUE, t) =>
              IF state.editorMode = "textAdd" /\ ~state.ignoreBackgroundClick
              THEN /\ Len(state'.standaloneLabels) = Len(state.standaloneLabels) + 1
                   /\ Slice(state'.standaloneLabels, Len(state.standaloneLabels))
                          = state.standaloneLabels
                   /\ Last(state'.standaloneLabels).position = p
                   /\ Last(state'.standaloneLabels).text = state.newLabelText
                   /\ Last(state'.standaloneLabels).visible
                   /\ state'.roads = state.roads
                   /\ state'.editorMode = state.editorMode
              ELSE state'.standaloneLabels = state.standaloneLabels]_vars

\* A second label was added in textAdd mode under another text than the default
C18_Witness ==
    /\ state # NoEditor
    /\ state.editorMode = "textAdd"
    /\ Len(state.standaloneLabels) = 2
    /\ state.standaloneLabels[2].text = "Depot"
    /\ state.selectedStandaloneLabel = state.standaloneLabels[2].id

\* C19: the step that takes the editor into labelEdit mode leaves no selection
\* rectangle pending: selectionMode is 'none', no rectangle is held and isDrawing
\* is false
C19_LabelEditClearsRectangle ==
    [][(state'.editorMode = "labelEdit" /\ state.editorMode # "labelEdit") =>
          /\ state'.selectionMode = "none"
          /\ selectionRect' = NoRect
          /\ ~isDrawing']_vars

\* C20: the step that dispatches SET_EDITOR_MODE 'selection' leaves no road label
\* and no standalone label selected, and the roads, the standalone labels and
\* the two histories as they were
C20_SelectionModeClearsSelection ==
    [][(ToggleEditorMode /\ state'.editorMode = "selection") =>
          /\ state'.selectedLabelId = Null
          /\ state'.selectedStandaloneLabel = Null
          /\ state'.roads = state.roads
          /\ state'.standaloneLabels = state.standaloneLabels
          /\ state'.history = state.history
          /\ state'.historyIndex = state.historyIndex
          /\ state'.labelHistory = state.labelHistory]_vars

\* Selection mode entered again after a label was added, which had selected it
C20_Witness ==
    /\ state # NoEditor
    /\ state.editorMode = "selection"
    /\ Len(state.standaloneLabels) > 0
    /\ state.selectedStandaloneLabel = Null
    /\ state.selectedLabelId = Null
    /\ state.historyIndex > 0

C22_FailedDxfExportLeavesEditor ==
    [][HandleFinalExportDxfThrows =>
           /\ app'.dxfPreviewData = NoPreview
           /\ dxfOut' = dxfOut
           /\ state' = state
           /\ EditorShown'
           /\ dxfOut'.calls < MaxCalls]_vars

\* A DXF export has thrown in an editor with edits and a label: data is cached, and no export
\* has produced a document
C22_Witness ==
    /\ app.cachedExportData # NoCache
    /\ svgOut.calls = 0
    /\ dxfOut.calls = 0
    /\ EditorShown
    /\ Len(state.history) > 1
    /\ state.standaloneLabels # <<>>

DxfLinesOf(id) == {k \in 1..Len(dxfOut.lines) : dxfOut.lines[k].id = id}

DxfRoadTextsOf(id) ==
    {k \in 1..Len(dxfOut.texts) : dxfOut.texts[k].kind = "road" /\ dxfOut.texts[k].id = id}

\* A label of the same name, not placed by hand, is in the document less than 150 away
DxfCrowded(i) ==
    \E j \in Idx \ {i} :
        /\ roads[j].name = roads[i].name
        /\ NoCustomPosition(roads[j])
        /\ DxfRoadTextsOf(roads[j].id) # {}
        /\ WithinRadius(Anchor(roads[i]), Anchor(roads[j]))

\* The one label of a single-point road: at the point moved by labelOffset, mirrored as the
\* document is, and not rotated
DxfPointLabel(i) ==
    /\ Cardinality(DxfRoadTextsOf(roads[i].id)) = 1
    /\ \A k \in DxfRoadTextsOf(roads[i].id) :
           /\ dxfOut.texts[k].x = roads[i].svgPoints[1][1] + OffsetOf(roads[i], 1)
           /\ Mirrored(dxfOut.texts[k].y, roads[i].svgPoints[1][2] + OffsetOf(roads[i], 2))
           /\ dxfOut.texts[k].rotation = 0

\* C23: in a DXF export a visible road without points gets no line and no label; a visible,
\* named road with showName and one point (and no angle set by hand) gets no line, and gets one
\* label at that point moved by its labelOffset with angle 0, unless the proximity rule
\* suppresses it for a label of the same name less than 150 away
C23_DegenerateGeometry ==
    DxfRan =>
        \A i \in Idx :
            /\ (roads[i].visible /\ Len(roads[i].svgPoints) = 0) =>
                   /\ DxfLinesOf(roads[i].id) = {}
                   /\ DxfRoadTextsOf(roads[i].id) = {}
            /\ (WantsLabel(roads[i]) /\ Len(roads[i].svgPoints) = 1
                  /\ ~Has(roads[i], "customAngle")) =>
                   /\ DxfLinesOf(roads[i].id) = {}
                   /\ \/ DxfPointLabel(i)
                      \/ /\ DxfRoadTextsOf(roads[i].id) = {}
                         /\ NoCustomPosition(roads[i])
                         /\ DxfCrowded(i)

\* C24: every road that processOverpassResponse returns has a type of the significant-type
\* list or a non-empty name, be it a highway, a railway or a waterway
C24_IncludedOnlyIfSignificantOrNamed ==
    response.status = "processed" =>
        \A i \in Idx : roads[i].type \in significantTypes \/ roads[i].name # ""

\* The rails and ties drawn for segment i of road id
Railway(rec) == [id |-> rec.id, i |-> rec.i, railway |-> rec.railway]

DxfRailways ==
    {Railway(dxfOut.lines[k]) :
        k \in {j \in 1..Len(dxfOut.lines) : dxfOut.lines[j].call = "addRailwaySegment"}}

StringRailways ==
    {Railway(svgString.paths[k]) :
        k \in {j \in 1..Len(svgString.paths) : svgString.paths[j].class = "railway"}}

PreviewRailways ==
    UNION {{RailwayPath(roads[i])[k] : k \in 1..Len(RailwayPath(roads[i]))} :
             i \in {j \in Idx : roads[j].visible /\ FeatureTypeOf(roads[j]) = "railway"}}

\* C25: for the same roads the editor's preview, the SVG export and the DXF export draw the
\* same rails and ties for every railway segment: two rails at the same distance and the same
\* ties at the same places along the segment
C25_RailwayPrimitivesAgree ==
    (DxfRan /\ StringRan) =>
        /\ StringRailways = PreviewRailways
        /\ DxfRailways = PreviewRailways

\* The labelOffset of road id in editor state s, (0, 0) when it has none
LabelOffsetIn(s, id) ==
    <<OffsetOf(findById(s.roads, id)[1], 1), OffsetOf(findById(s.roads, id)[1], 2)>>

\* A label is being dragged, and not rotated, with the button held over the drawing
DraggingLabel ==
    /\ mouse.down
    /\ mouse.over = "svg"
    /\ state.draggedLabelId # Null
    /\ ~state.isRotating
    /\ findById(state.roads, state.draggedLabelId) # <<>>

\* C26: while a label is dragged every move of the pointer moves its labelOffset by as much as
\* the pointer moved since the press or the move before, so that the offset is always the
\* offset at the press plus the way of the pointer since then: no jump at the first move and
\* no drift
C26_DragFollowsPointer ==
    [][\A p \in Pointer :
          (DraggingLabel /\ MouseMoveTo(p)) =>
              /\ LabelOffsetIn(state', state.draggedLabelId)[1]
                   = LabelOffsetIn(state, state.draggedLabelId)[1] + p[1] - mouse.at[1]
              /\ LabelOffsetIn(state', state.draggedLabelId)[2]
                   = LabelOffsetIn(state, state.draggedLabelId)[2] + p[2] - mouse.at[2]]_vars

\* roads[i] is in the exporter's list of names to draw, has a point, and has no label
SvgSuppressed(i) ==
    /\ svgHasNameToDraw(roads[i])
    /\ Len(roads[i].svgPoints) >= 1
    /\ roads[i].id \notin LabelledIds(svgOut.texts)

DxfSuppressed(i) ==
    /\ dxfHasNameToDraw(roads[i])
    /\ Len(roads[i].svgPoints) >= 1
    /\ roads[i].id \notin LabelledIds(dxfOut.texts)

\* The label of roads[j] is in the document, was placed before roads[i] was looked at, has the
\* same name and no custom position, and is less than 150 from where roads[i] would be
\* labelled
Suppresses(texts, j, i) ==
    /\ j # i
    /\ roads[j].name = roads[i].name
    /\ roads[j].id \in LabelledIds(texts)
    /\ NoCustomPosition(roads[j])
    /\ Before(j, i)
    /\ WithinRadius(Anchor(roads[j]), Anchor(roads[i]))

TiedPairs ==
    {p \in LonePairs :
        /\ Rank(roads[p[1]]) = Rank(roads[p[2]])
        /\ WithinRadius(Anchor(roads[p[1]]), Anchor(roads[p[2]]))}

\* The road of the pair with more points, or the earlier in the list when they have as many
TieWinner(i, j) ==
    IF Len(roads[i].svgPoints) > Len(roads[j].svgPoints) THEN i
    ELSE IF Len(roads[j].svgPoints) > Len(roads[i].svgPoints) THEN j
    ELSE IF i < j THEN i ELSE j

\* C28: of two same-named roads without custom position, of equal category rank and less than
\* 150 apart, an export labels the one with more points and no other, and when they have as
\* many points the one that is earlier in the list given to the export
C28_LongerThenEarlierWins ==
    \A p \in TiedPairs :
        /\ SvgRan => PairShown(svgOut.texts, p[1], p[2]) = {roads[TieWinner(p[1], p[2])].id}
        /\ DxfRan => PairShown(dxfOut.texts, p[1], p[2]) = {roads[TieWinner(p[1], p[2])].id}

\* The angles that rotations have stored on the roads of the editor
StoredAngles ==
    IF state = NoEditor THEN {}
    ELSE {state.roads[i].customAngle :
             i \in {j \in DOMAIN state.roads : Has(state.roads[j], "customAngle")}}

C30_BackToEditorKeepsWorkingSet ==
    [][HandleBackToEdit =>
          /\ state' # NoEditor
          /\ SelectSeq(state'.roads, LAMBDA road : road.visible)
                = app.cachedExportData.roads
          /\ SelectSeq(state'.standaloneLabels, LAMBDA label : label.visible)
                = app.cachedExportData.standaloneLabels]_vars

-----------------------------------------------------------------------------
\* A mouseup or mouseleave on the drawing that commits the rectangle in progress
RectangleCommit ==
    /\ MouseUp \/ MouseLeave
    /\ mouse.over = "svg"
    /\ ~isPanning
    /\ isDrawing
    /\ selectionRect # NoRect

\* C31: the commit of a rectangle makes a road visible only when selectionMode is
\* 'select' and invisible only when it is 'deselect'; with selectionMode 'none' at the
\* commit, as after a change of editor mode while the rectangle is in progress, no road's
\* visible flag changes.
C31_CommitFollowsSelectionMode ==
    [][RectangleCommit =>
          \A i \in DOMAIN state.roads :
              /\ (~state.roads[i].visible /\ state'.roads[i].visible)
                    => state.selectionMode = "select"
              /\ (state.roads[i].visible /\ ~state'.roads[i].visible)
                    => state.selectionMode = "deselect"]_vars

\* The road of the list that has the id
RoadOf(id) == roads[CHOOSE i \in Idx : roads[i].id = id]

\* Pairs of road labels of a document that have the same name and no custom position
UnplacedNamesakes(texts) ==
    {p \in (1..Len(texts)) \X (1..Len(texts)) :
        /\ p[1] < p[2]
        /\ texts[p[1]].kind = "road" /\ texts[p[2]].kind = "road"
        /\ texts[p[1]].text = texts[p[2]].text
        /\ NoCustomPosition(RoadOf(texts[p[1]].id))
        /\ NoCustomPosition(RoadOf(texts[p[2]].id))}

\* Two <text> elements of the SVG document are 150 apart or more
SvgApart(a, b) ==
    (a.x - b.x) * (a.x - b.x) + (a.y - b.y) * (a.y - b.y)
        >= MIN_LABEL_DISTANCE * MIN_LABEL_DISTANCE

\* Two TEXT entities of the DXF document are 150 apart or more, which no NaN is
DxfApart(a, b) ==
    /\ ~a.y.nan /\ ~b.y.nan
    /\ (a.x - b.x) * (a.x - b.x) + (a.y.v - b.y.v) * (a.y.v - b.y.v)
          >= MIN_LABEL_DISTANCE * MIN_LABEL_DISTANCE

SvgNamesakesApart ==
    SvgRan => \A p \in UnplacedNamesakes(svgOut.texts) :
                 SvgApart(svgOut.texts[p[1]], svgOut.texts[p[2]])

\* C32: in every export pass, any two emitted road labels of the same name that both have
\* no custom position are at distance 150 or more from each other, in the SVG and in the
\* DXF document.
C32_NamesakesApart ==
    /\ SvgNamesakesApart
    /\ DxfRan => \A p \in UnplacedNamesakes(dxfOut.texts) :
                    DxfApart(dxfOut.texts[p[1]], dxfOut.texts[p[2]])

\* C33: in every state of the editor 0 <= historyIndex <= length(history) - 1; a step that
\* saves to the history leaves historyIndex at the last entry, the entries up to the old
\* index being kept and those after it discarded; and an undo takes one from historyIndex
\* and leaves the history array as it is.
C33_HistoryCursor ==
    /\ [](state # NoEditor =>
             0 <= state.historyIndex /\ state.historyIndex <= Len(state.history) - 1)
    /\ [][(state # NoEditor /\ state' # NoEditor /\ state'.history # state.history) =>
             /\ state'.historyIndex = Len(state'.history) - 1
             /\ state'.historyIndex > state.historyIndex
             /\ Slice(state'.history, state.historyIndex + 1)
                   = Slice(state.history, state.historyIndex + 1)]_vars
    /\ [][Undo => /\ state'.historyIndex = state.historyIndex - 1
                  /\ state'.history = state.history]_vars

\* Two entries have been saved and one undone
C33_Witness ==
    /\ state # NoEditor
    /\ state.historyIndex = 1
    /\ Len(state.history) = 3

\* C34: in every state of the editor a selectionMode of 'select' or 'deselect' goes with
\* the editor mode 'selection': leaving selection mode sets selectionMode to 'none', and
\* the rectangle tools are armed in selection mode only.
C34_ToolArmedInSelectionModeOnly ==
    state # NoEditor =>
        (state.selectionMode \in {"select", "deselect"} => state.editorMode = "selection")

\* Selection mode has been left with a rectangle of an armed tool in progress
C34_Witness ==
    /\ state # NoEditor
    /\ state.editorMode = "labelEdit"
    /\ state.selectionMode = "none"
    /\ isDrawing
    /\ selectionRect # NoRect

\* The road has a point in the rectangle, its edges included, whichever way it was dragged
InRectangle(road, rect) ==
    \E k \in DOMAIN road.svgPoints :
        /\ Min2(rect.startX, rect.startX + rect.width) <= road.svgPoints[k][1]
        /\ road.svgPoints[k][1] <= Max2(rect.startX, rect.startX + rect.width)
        /\ Min2(rect.startY, rect.startY + rect.height) <= road.svgPoints[k][2]
        /\ road.svgPoints[k][2] <= Max2(rect.startY, rect.startY + rect.height)

\* The commit changes nothing of the roads but the visible flag of roads in the rectangle
CommitTouchesInsideOnly ==
    /\ DOMAIN state'.roads = DOMAIN state.roads
    /\ \A i \in DOMAIN state.roads :
          \/ state'.roads[i] = state.roads[i]
          \/ /\ InRectangle(state.roads[i], selectionRect)
             /\ state'.roads[i] = [state.roads[i] EXCEPT !.visible = ~@]
    /\ state'.standaloneLabels = state.standaloneLabels

\* C35: the commit of a rectangle changes only the visible flag, and only of roads with a
\* point in the rectangle (edges included, dragged either way); every other road and field
\* is as it was, and the resulting road list is committed as exactly one history entry.
C35_CommitIsOneEntry ==
    [][RectangleCommit =>
          /\ CommitTouchesInsideOnly
          /\ state'.historyIndex = state.historyIndex + 1
          /\ state'.history
                = Append(Slice(state.history, state.historyIndex + 1), state'.roads)]_vars

\* C36: whenever the pointer is up and ignoreBackgroundClick is true, as after a label
\* click, a change of font size, a drag of a road label or of a standalone label, or a
\* rotation, ignoreBackgroundClick becomes false again later on, the pending timers
\* running: no sequence of interactions leaves it true for ever.
C36_BackgroundClicksComeBack ==
    (state # NoEditor /\ ~mouse.down /\ state.ignoreBackgroundClick)
        ~> (state = NoEditor \/ ~state.ignoreBackgroundClick)

\* C37: in every state of the editor selectedStandaloneLabel is null or the id of a label
\* of standaloneLabels: when the selected label leaves the list, by
\* DELETE_STANDALONE_LABEL or by UNDO, the selection is cleared.
C37_SelectedLabelExists ==
    state # NoEditor =>
        \/ state.selectedStandaloneLabel = Null
        \/ state.selectedStandaloneLabel \in IdsOf(state.standaloneLabels)

\* C38: for every geometry of 2 to 9 points and no customAngle the computed label angle
\* is 0 whatever the coordinates, in getCalculatedAngle and in the DXF export alike: the
\* span min(3, floor(n/10)) is 0 and both samples are the midpoint sample; an angle other
\* than 0 is computed for geometries of 10 points or more only.
C38_ShortGeometryAngleZero ==
    /\ (AngleTaken /\ Len(geometry) <= 9) =>
          /\ LookSpan(Len(geometry)) = 0
          /\ labelAngle.angle = 0
          /\ dxfLabelAngle([svgPoints |-> geometry]) = 0
    /\ (labelAngle.done /\ labelAngle.angle # 0) => Len(geometry) >= 10

\* The angle of a slanted geometry of nine distinct points has been computed
C38_Witness ==
    /\ AngleTaken
    /\ Len(geometry) = 9
    /\ geometry[9][1] # geometry[1][1]
    /\ geometry[9][2] # geometry[1][2]
    /\ labelAngle.angle = 0

====
